---- MODULE Spec2Model ----
(***************************************************************************)
(* Model of the tag validation and status transition engine of the iPad   *)
(* tracking application (src/src/dbService.ts): the department registry   *)
(* (collection 'ipad'), the event store (collection 'logs'), and addLog   *)
(* calls that run as interleaved asynchronous calls, each suspended at    *)
(* every store read and write.                                            *)
(***************************************************************************)
EXTENDS Integers, Sequences, FiniteSets, TLC

(***************************************************************************)
(* Bounds of the model.                                                    *)
(***************************************************************************)
MaxLogs == 2            \* documents the event store can hold when calls overlap
MaxLogsSeq == 3
MaxDelay == 1            \* how late an interval timer may fire, in time units         \* documents the event store can hold when calls run one at a time
TicksPerMs == 2         \* server timestamp units in one millisecond

(***************************************************************************)
(* Strings are sequences of one-character strings, so that trim,           *)
(* toLowerCase and replace are computed and not assumed.                   *)
(***************************************************************************)
IsWs(c) == c = " "

ToLowerChar(c) ==
  CASE c = "E" -> "e"
    [] c = "R" -> "r"
    [] c = "O" -> "o"
    [] c = "A" -> "a"
    [] OTHER -> c

RECURSIVE TrimStart(_)
TrimStart(s) ==
  IF s = <<>> THEN <<>>
  ELSE IF IsWs(Head(s)) THEN TrimStart(Tail(s)) ELSE s

RECURSIVE TrimEnd(_)
TrimEnd(s) ==
  IF s = <<>> THEN <<>>
  ELSE IF IsWs(s[Len(s)]) THEN TrimEnd(SubSeq(s, 1, Len(s) - 1)) ELSE s

\* String.prototype.trim
Trim(s) == TrimEnd(TrimStart(s))

\* String.prototype.toLowerCase
ToLowerCase(s) == [i \in 1..Len(s) |-> ToLowerChar(s[i])]

\* s.replace(/\s+/g, '_'): every maximal run of whitespace becomes one '_'
RECURSIVE ReplaceWsRuns(_)
ReplaceWsRuns(s) ==
  IF s = <<>> THEN <<>>
  ELSE IF IsWs(Head(s)) THEN <<"_">> \o ReplaceWsRuns(TrimStart(s))
  ELSE <<Head(s)>> \o ReplaceWsRuns(Tail(s))

\* the stable document id of a department
deptIdFor(department) == ReplaceWsRuns(ToLowerCase(Trim(department)))

(***************************************************************************)
(* The values the model draws its inputs from.                             *)
(***************************************************************************)
DeptER == <<"E", "R">>
DeptErSp == <<" ", "e", "r">>        \* another display name with the id "er"
DeptOR == <<"O", "R">>
DeptNames == {DeptER, DeptErSp, DeptOR}
DocIds == {deptIdFor(d) : d \in DeptNames}

TagA == <<"a">>
TagUpperA == <<"A">>                 \* differs from TagA by case only
Tags == {TagA, TagUpperA}

Callers == {1, 2}                    \* the terminals; their addLog calls may overlap
EmployeeOf == [p \in Callers |-> IF p = 1 THEN "E100" ELSE "E200"]
Employees == {EmployeeOf[p] : p \in Callers}

\* LogBase.status: 'ส่งเข้า' (check-in) | 'ส่งออก' (check-out)
StatusIn == "IN"
StatusOut == "OUT"
Statuses == {StatusIn, StatusOut}
NoStatus == "NONE"                   \* the null of getIpadStatus

\* the argument of addLog
LogBase == [employeeId : Employees, ipadTag : Tags,
            department : DeptNames, status : Statuses]


(***************************************************************************)
(* The registry: the documents of collection 'ipad', by document id.       *)
(***************************************************************************)
NoDoc == [exists |-> FALSE, department |-> <<>>, tags |-> <<>>]
IpadDocument(department, tags) ==
  [exists |-> TRUE, department |-> department, tags |-> tags]

SeqToSet(s) == {s[i] : i \in 1..Len(s)}

EmptyRegistry == [id \in DocIds |-> NoDoc]

\* registries that upsertIpadDepartment calls build from the empty one
RegistryTwoDepts ==
  [id \in DocIds |->
     IF id = deptIdFor(DeptER) THEN IpadDocument(DeptER, <<TagA>>)
     ELSE IF id = deptIdFor(DeptOR) THEN IpadDocument(DeptOR, <<TagUpperA>>)
     ELSE NoDoc]

RegistryOneDept ==
  [id \in DocIds |->
     IF id = deptIdFor(DeptErSp) THEN IpadDocument(DeptErSp, <<TagUpperA, TagA>>)
     ELSE NoDoc]

InitialRegistries == {EmptyRegistry, RegistryTwoDepts, RegistryOneDept}

(***************************************************************************)
(* The registry operations, each as the registry it leaves when all its    *)
(* store calls succeed; a call that throws before its first write leaves   *)
(* the registry as it was.                                                 *)
(***************************************************************************)
\* what the administrator may type as a tag
TagSpA == <<" ", "a">>               \* trims to TagA
TagBlank == <<" ">>
RawTags == Tags \cup {TagSpA, TagBlank}
TagLists == {<<>>, <<TagA>>, <<TagSpA, TagA>>, <<TagBlank, TagUpperA>>}

\* tags.map(t => String(t).trim())
MapTrim(tags) == [i \in 1..Len(tags) |-> Trim(tags[i])]

\* .filter(Boolean)
FilterBoolean(tags) == SelectSeq(tags, LAMBDA t : t # <<>>)

\* an Array.from that keeps every element
ArrayFromSet_KeepAll(s) == s

\* Array.from(new Set(s)): the first occurrence of every element, in order
RECURSIVE ArrayFromSet(_)
ArrayFromSet(s) ==
  IF s = <<>> THEN <<>>
  ELSE LET front == ArrayFromSet(SubSeq(s, 1, Len(s) - 1))
           last == s[Len(s)]
       IN IF last \in SeqToSet(front) THEN front ELSE Append(front, last)

\* an upsert that replaces the tags of an existing document
upsertIpadDepartment_Replace(reg, department, tags) ==
  IF Trim(department) = <<>> THEN reg
  ELSE [reg EXCEPT ![deptIdFor(department)] =
          IpadDocument(department, ArrayFromSet(FilterBoolean(MapTrim(tags))))]

upsertIpadDepartment(reg, department, tags) ==
  IF Trim(department) = <<>> THEN reg          \* throws 'department required'
  ELSE LET id == deptIdFor(department)
           normalizedTags == ArrayFromSet(FilterBoolean(MapTrim(tags)))
       IN IF reg[id].exists
          THEN [reg EXCEPT ![id] =
                  IpadDocument(department, ArrayFromSet(reg[id].tags \o normalizedTags))]
          ELSE [reg EXCEPT ![id] = IpadDocument(department, normalizedTags)]

\* a removal that deletes the document when no tag is left
removeTagFromDepartment_DeleteWhenEmpty(reg, department, tag) ==
  LET id == deptIdFor(department)
      updated == SelectSeq(reg[id].tags, LAMBDA t : t # tag)
  IN IF ~reg[id].exists THEN reg
     ELSE IF updated = <<>> THEN [reg EXCEPT ![id] = NoDoc]
     ELSE [reg EXCEPT ![id].tags = updated]

removeTagFromDepartment(reg, department, tag) ==
  LET id == deptIdFor(department)
  IN IF ~reg[id].exists THEN reg
     ELSE [reg EXCEPT ![id].tags = SelectSeq(@, LAMBDA t : t # tag)]

\* removeTagFromDepartment rethrows a failed getDoc, and a failed updateDoc,
\* which it calls only when the document exists
removeTagFromDepartmentThrows(reg, department, readOk, writeOk) ==
  ~readOk \/ (reg[deptIdFor(department)].exists /\ ~writeOk)

\* a deleteDepartment that deletes every document
deleteDepartment_All(reg, department) == [id \in DOMAIN reg |-> NoDoc]

deleteDepartment(reg, department) ==
  [reg EXCEPT ![deptIdFor(department)] = NoDoc]

addTagToDepartment(reg, department, tag) ==
  IF Trim(tag) = <<>> THEN reg
  ELSE LET id == deptIdFor(department)
           t == Trim(tag)
       IN IF reg[id].exists
          THEN IF t \in SeqToSet(reg[id].tags) THEN reg
               ELSE [reg EXCEPT ![id] = IpadDocument(department, Append(reg[id].tags, t))]
          ELSE [reg EXCEPT ![id] = IpadDocument(department, <<t>>)]

\* the write of addTagToDepartment after its getDoc returned snap: none when
\* snap holds the tag, updateDoc with [...existing, t] when snap exists,
\* setDoc with [t] when it does not
addTagWrite(reg, department, tag, snap) ==
  LET id == deptIdFor(department)
      t == Trim(tag)
  IN IF snap.exists
     THEN IF t \in SeqToSet(snap.tags) THEN reg
          ELSE [reg EXCEPT ![id] = IpadDocument(department, Append(snap.tags, t))]
     ELSE [reg EXCEPT ![id] = IpadDocument(department, <<t>>)]

\* a rename that leaves the old document in place
renameIpadDepartment_KeepOld(reg, oldName, newName) ==
  LET oldId == deptIdFor(oldName)
      newId == deptIdFor(newName)
  IN IF oldId = newId THEN reg
     ELSE [reg EXCEPT ![newId] =
             IpadDocument(newName, ArrayFromSet(reg[newId].tags \o reg[oldId].tags))]

renameIpadDepartment(reg, oldName, newName) ==
  LET oldId == deptIdFor(oldName)
      newId == deptIdFor(newName)
  IN IF oldName = <<>> \/ newName = <<>> THEN reg   \* throws
     ELSE IF oldId = newId
     THEN \* updateDoc rejects when the document is missing
          IF reg[oldId].exists THEN [reg EXCEPT ![oldId].department = newName]
          ELSE reg
     ELSE LET oldTags == reg[oldId].tags       \* [] when the document is missing
              newTags == reg[newId].tags
              merged == ArrayFromSet(FilterBoolean(MapTrim(newTags \o oldTags)))
          IN [reg EXCEPT ![newId] = IpadDocument(newName, merged),
                         ![oldId] = NoDoc]

\* the store calls of renameIpadDepartment that can reject
RenameSteps == {"getDoc", "write", "deleteDoc"}

\* a rename that deletes the old document before it writes the new one
renameIpadDepartmentFailsAt_DeleteFirst(reg, oldName, newName, step) ==
  IF step = "write" /\ deptIdFor(oldName) # deptIdFor(newName)
  THEN [reg EXCEPT ![deptIdFor(oldName)] = NoDoc]
  ELSE reg

\* the registry a renameIpadDepartment leaves whose store call of the given
\* step rejects: nothing is written before the write of the new document,
\* and a rejected deleteDoc comes after that write
renameIpadDepartmentFailsAt(reg, oldName, newName, step) ==
  LET oldId == deptIdFor(oldName)
      newId == deptIdFor(newName)
  IN IF oldId = newId \/ step # "deleteDoc" THEN reg
     ELSE [reg EXCEPT ![newId] =
             IpadDocument(newName,
               ArrayFromSet(FilterBoolean(MapTrim(reg[newId].tags \o reg[oldId].tags))))]

\* a deleteLogs whose batch deletes every log
deleteLogs_All(docs, logIds) == {}

\* deleteLogs: the batch deletes the documents with the given ids; an id
\* without document is deleted without effect
deleteLogs(docs, logIds) == {d \in docs : d.id \notin logIds}

\* the page's handleDeleteSelectedLogs: it calls deleteLogs without awaiting
\* it and sets the list it shows to prevLogs without the selected ids
handleDeleteSelectedLogs(prevLogs, selectedIds) ==
  {l \in prevLogs : l.id \notin selectedIds}

\* the message of the Error deleteLogs throws from its catch block
MsgDeleteFailed == <<"cannot delete the selected entries">>

\* a deleteLogs whose catch block throws nothing
deleteLogsOutcome_Swallow(docs, logIds, commitOk) ==
  [docs |-> IF commitOk THEN deleteLogs(docs, logIds) ELSE docs,
   threw |-> FALSE, message |-> <<>>]

\* deleteLogs as a whole: batch.commit() applies all the deletes of the
\* batch or, when it rejects, none; the catch block throws a new Error
deleteLogsOutcome(docs, logIds, commitOk) ==
  [docs |-> IF commitOk THEN deleteLogs(docs, logIds) ELSE docs,
   threw |-> ~commitOk,
   message |-> IF commitOk THEN <<>> ELSE MsgDeleteFailed]

(***************************************************************************)
(* The registry list reads.                                                *)
(***************************************************************************)
\* the order of localeCompare(..., 'th') on the names and tags of the model
DeptOrder == <<DeptErSp, DeptER, DeptOR>>
TagOrder == <<TagA, TagUpperA>>

\* Array.from(set).sort(localeCompare)
SortBy(order, set) == SelectSeq(order, LAMBDA x : x \in set)

\* getDepartmentsFromDB: the department fields of all documents, sorted;
\* its catch block returns []
getDepartmentsFromDB(reg, readOk) ==
  IF readOk
  THEN SortBy(DeptOrder,
              {reg[id].department :
                 id \in {i \in DOMAIN reg : reg[i].exists /\ reg[i].department # <<>>}})
  ELSE <<>>

getDepartmentsFromDBThrows(readOk) == FALSE

\* getTagsByDepartment when its query succeeds: the trimmed non-blank tags
\* of the documents whose department field is the given name, sorted
getTagsByDepartment(reg, department) ==
  SortBy(TagOrder,
         {Trim(t) : t \in UNION {SeqToSet(reg[id].tags) :
                       id \in {i \in DOMAIN reg :
                                 reg[i].exists /\ reg[i].department = department}}}
           \ {<<>>})

\* getTagsByDepartment has no try: a rejected getDocs rejects its promise
getTagsByDepartmentThrows(readOk) == ~readOk

(***************************************************************************)
(* The event store: the documents of collection 'logs'.  A document is     *)
(* [id, employeeId, ipadTag, department, status, timestamp]; timestamp is  *)
(* the server timestamp in ticks.                                          *)
(***************************************************************************)
NoEvent == [id |-> 0, employeeId |-> "", ipadTag |-> <<>>,
            department |-> <<>>, status |-> NoStatus]

\* query(logsCollection, orderBy('timestamp', 'desc')): newest first, documents
\* with equal timestamps in descending order of document id
Newer(a, b) ==
  \/ a.timestamp > b.timestamp
  \/ a.timestamp = b.timestamp /\ a.id > b.id

RECURSIVE OrderByTimestampDesc(_)
OrderByTimestampDesc(docs) ==
  IF docs = {} THEN <<>>
  ELSE LET first == CHOOSE a \in docs : \A b \in docs \ {a} : Newer(a, b)
       IN <<first>> \o OrderByTimestampDesc(docs \ {first})

\* data.timestamp.toDate().toISOString(): millisecond resolution
ToISOString(timestamp) == timestamp \div TicksPerMs

\* a timestamp field that holds null instead of a Timestamp; orderBy sorts
\* null below every Timestamp
NullTimestamp == -1

\* new Date() at the time of a read: the client's clock, a millisecond past
\* every server timestamp in the store
DateNow(docs) ==
  LET stamps == {d.timestamp : d \in docs} \cup {0}
  IN (CHOOSE t \in stamps : \A u \in stamps : u <= t) + TicksPerMs

\* the timestamp of a Log: toDate().toISOString() of a Timestamp, and
\* new Date().toISOString() of a value that is neither Timestamp nor string
LogTimestamp(docs, timestamp) ==
  IF timestamp = NullTimestamp THEN ToISOString(DateNow(docs))
  ELSE ToISOString(timestamp)

\* new Date(iso).getTime()
GetTime(iso) == iso

\* getLogs: the documents newest first, each with its timestamp as ISO
\* string; a failed read is caught and gives the empty list
getLogs(docs, readOk) ==
  IF readOk
  THEN LET ordered == OrderByTimestampDesc(docs)
       IN [i \in 1..Len(ordered) |->
             [id |-> ordered[i].id,
              employeeId |-> ordered[i].employeeId,
              ipadTag |-> ordered[i].ipadTag,
              department |-> ordered[i].department,
              status |-> ordered[i].status,
              timestamp |-> LogTimestamp(docs, ordered[i].timestamp)]]
  ELSE <<>>

\* a filter that keeps the events of every tag
RECURSIVE Filter_KeepAll(_, _)
Filter_KeepAll(s, ipadTag) ==
  IF s = <<>> THEN <<>>
  ELSE <<Head(s)>> \o Filter_KeepAll(Tail(s), ipadTag)

\* Array.prototype.filter
RECURSIVE Filter(_, _)
Filter(s, ipadTag) ==
  IF s = <<>> THEN <<>>
  ELSE IF Head(s).ipadTag = ipadTag
       THEN <<Head(s)>> \o Filter(Tail(s), ipadTag)
       ELSE Filter(Tail(s), ipadTag)

\* the sort with the comparator getTime(a) - getTime(b): oldest first
RECURSIVE InsertByTimeAsc(_, _)
InsertByTimeAsc(x, sorted) ==
  IF sorted = <<>> THEN <<x>>
  ELSE IF GetTime(Head(sorted).timestamp) <= GetTime(x.timestamp)
       THEN <<Head(sorted)>> \o InsertByTimeAsc(x, Tail(sorted))
       ELSE <<x>> \o sorted

\* Array.prototype.sort with the comparator getTime(b) - getTime(a): a stable
\* sort, newest first
RECURSIVE InsertByTimeDesc(_, _)
InsertByTimeDesc(x, sorted) ==
  IF sorted = <<>> THEN <<x>>
  ELSE IF GetTime(Head(sorted).timestamp) >= GetTime(x.timestamp)
       THEN <<Head(sorted)>> \o InsertByTimeDesc(x, Tail(sorted))
       ELSE <<x>> \o sorted

RECURSIVE SortByTimeDesc(_)
SortByTimeDesc(s) ==
  IF s = <<>> THEN <<>>
  ELSE InsertByTimeDesc(s[Len(s)], SortByTimeDesc(SubSeq(s, 1, Len(s) - 1)))

\* getIpadStatus that takes the last element of the sorted list
getIpadStatus_Oldest(docs, ipadTag, readOk) ==
  LET allLogs == getLogs(docs, readOk)
      ipadLogs == SortByTimeDesc(Filter(allLogs, ipadTag))
  IN IF ipadLogs = <<>> THEN NoStatus ELSE ipadLogs[Len(ipadLogs)].status

\* getIpadStatus: the status of the newest event of the tag, or null
getIpadStatus(docs, ipadTag, readOk) ==
  LET allLogs == getLogs(docs, readOk)
      ipadLogs == SortByTimeDesc(Filter(allLogs, ipadTag))
  IN IF ipadLogs = <<>> THEN NoStatus ELSE ipadLogs[1].status

(***************************************************************************)
(* getIpadStatus as a whole: its try block (above) and the two fallbacks   *)
(* of its catch block.                                                     *)
(***************************************************************************)
\* the browser's localStorage item 'ipadLogs': absent, or a list of logs; no
\* code of the application writes it
NoLocalLogs == <<>>
LegacyLocalLogs == <<[ipadTag |-> TagA, status |-> StatusOut, timestamp |-> 0]>>
LocalStores == {NoLocalLogs, LegacyLocalLogs}

\* getLogs throws: never, its whole body is inside try and its catch block
\* returns []
getLogsThrows(readOk) == FALSE

\* Fallback 1: query(where ipadTag == tag, orderBy timestamp desc, limit 1)
QueryLatest(docs, ipadTag) ==
  LET ofTag == {d \in docs : d.ipadTag = ipadTag}
  IN IF ofTag = {} THEN <<>> ELSE <<OrderByTimestampDesc(ofTag)[1]>>

\* Fallback 2: the newest log of the tag in localStorage, or null
LocalStatus(local, ipadTag) ==
  LET ipadLogs == SortByTimeDesc(Filter(local, ipadTag))
  IN IF ipadLogs = <<>> THEN NoStatus ELSE ipadLogs[1].status

\* a getIpadStatus without catch block
getIpadStatusOutcome_NoCatch(docs, local, ipadTag, readOk, queryOk) ==
  [threw |-> ~readOk,
   status |-> getIpadStatus(docs, ipadTag, readOk),
   tried |-> <<"getLogs">>]

\* getIpadStatus: whether it throws, the status it returns, and the sources
\* it asked, in order
getIpadStatusOutcome(docs, local, ipadTag, readOk, queryOk) ==
  IF ~getLogsThrows(readOk)
  THEN [threw |-> FALSE,
        status |-> getIpadStatus(docs, ipadTag, readOk),
        tried |-> <<"getLogs">>]
  ELSE IF queryOk /\ QueryLatest(docs, ipadTag) # <<>>
  THEN [threw |-> FALSE,
        status |-> QueryLatest(docs, ipadTag)[1].status,
        tried |-> <<"getLogs", "query">>]
  ELSE [threw |-> FALSE,
        status |-> LocalStatus(local, ipadTag),
        tried |-> <<"getLogs", "query", "localStorage">>]

\* the fallbacks read the store and localStorage only when the try block
\* has thrown: the outcomes these reads can have
FallbackOutcomes(readOk) == IF getLogsThrows(readOk) THEN BOOLEAN ELSE {TRUE}
FallbackStores(readOk) == IF getLogsThrows(readOk) THEN LocalStores ELSE {NoLocalLogs}

(***************************************************************************)
(* The transition check and the tag check.                                 *)
(***************************************************************************)
\* the messages of the errors addLog throws
MsgAlreadyInStatus(newStatus) ==
  <<"cannot", newStatus, "the tag is already in status", newStatus>>
MsgInconsistent(newStatus) ==
  <<"cannot", newStatus, "the current status is inconsistent">>
MsgTagNotFound == <<"tag not found or department wrong">>
MsgNotCheckedOutYet == <<"cannot check in, the tag is not checked out yet">>
MsgNotCheckedInYet == <<"cannot check out, the tag is not checked in yet">>
MsgSaveFailed == <<"cannot save, please try again">>
MsgOfStoreError == <<"message of the Error the store threw">>

\* canAddLog that wants the first event of a tag to be a check-in
canAddLog_CheckInFirst(currentStatus, newStatus) ==
  IF currentStatus = NoStatus /\ newStatus = StatusIn
  THEN [canAdd |-> TRUE, message |-> <<>>]
  ELSE IF currentStatus = newStatus
  THEN [canAdd |-> FALSE, message |-> MsgAlreadyInStatus(newStatus)]
  ELSE IF newStatus = StatusOut /\ currentStatus = StatusIn
  THEN [canAdd |-> TRUE, message |-> <<>>]
  ELSE IF newStatus = StatusIn /\ currentStatus = StatusOut
  THEN [canAdd |-> TRUE, message |-> <<>>]
  ELSE [canAdd |-> FALSE, message |-> MsgInconsistent(newStatus)]

\* canAddLog without its same-status branch
canAddLog_NoDuplicateBranch(currentStatus, newStatus) ==
  [canAdd |-> TRUE, message |-> <<>>]

\* canAddLog, on the status its getIpadStatus call returned
canAddLog(currentStatus, newStatus) ==
  IF currentStatus = NoStatus
  THEN [canAdd |-> TRUE, message |-> <<>>]
  ELSE IF currentStatus = newStatus
  THEN [canAdd |-> FALSE, message |-> MsgAlreadyInStatus(newStatus)]
  ELSE IF newStatus = StatusOut /\ currentStatus = StatusIn
  THEN [canAdd |-> TRUE, message |-> <<>>]
  ELSE IF newStatus = StatusIn /\ currentStatus = StatusOut
  THEN [canAdd |-> TRUE, message |-> <<>>]
  ELSE [canAdd |-> FALSE, message |-> MsgInconsistent(newStatus)]

\* validateIpadTag without the department condition of its query
validateIpadTag_AnyDepartment(reg, ipadTag, department, readOk) ==
  IF readOk
  THEN \E id \in DOMAIN reg :
         reg[id].exists /\ ipadTag \in SeqToSet(reg[id].tags)
  ELSE FALSE

\* validateIpadTag whose catch block returns true
validateIpadTag_TrueOnFailure(reg, ipadTag, department, readOk) ==
  IF readOk
  THEN \E id \in DOMAIN reg :
         /\ reg[id].exists
         /\ ipadTag \in SeqToSet(reg[id].tags)
         /\ reg[id].department = department
  ELSE TRUE

\* validateIpadTag: some document has the tag in its tags array and the
\* given department as its department field; a failed read gives false
validateIpadTag(reg, ipadTag, department, readOk) ==
  IF readOk
  THEN \E id \in DOMAIN reg :
         /\ reg[id].exists
         /\ ipadTag \in SeqToSet(reg[id].tags)
         /\ reg[id].department = department
  ELSE FALSE

\* a validateIpadTag without catch block
validateIpadTagThrows_NoCatch(readOk) == ~readOk

\* validateIpadTag throws: never, its catch block returns false
validateIpadTagThrows(readOk) == FALSE

(***************************************************************************)
(* State.                                                                  *)
(***************************************************************************)
VARIABLES
  registry,    \* collection 'ipad': document id -> document
  logs,        \* collection 'logs': the set of event documents
  clock,       \* the number of writes the server has committed
  calls,       \* the addLog call of each caller
  probe,       \* the latest direct canAddLog call and what it gave
  admin,       \* the latest registry or deleteLogs operation
  form         \* LogForm: its tag cache and the timing of its refresh

vars == <<registry, logs, clock, calls, probe, admin, form>>

NoLogBase == [employeeId |-> "", ipadTag |-> <<>>, department |-> <<>>,
              status |-> NoStatus]
NoResult == [kind |-> "none", message |-> <<>>, event |-> NoEvent]
Thrown(message) == [kind |-> "error", message |-> message, event |-> NoEvent]
Returned(event) == [kind |-> "event", message |-> <<>>, event |-> event]

\* a catch block that throws the save-failed message for whatever it caught
Rethrow_Generic(isError, message) == Thrown(MsgSaveFailed)

\* a catch block that logs the error and returns
Rethrow_Swallow(isError, message) == Returned(NoEvent)

\* the catch block of addLog: what was thrown inside the try block is thrown
\* again as an Error, with its own message when it is an Error and with the
\* save-failed message otherwise
Rethrow(isError, message) == Thrown(IF isError THEN message ELSE MsgSaveFailed)

\* pc: idle, validateIpadTag, canAddLog, getIpadStatus, addDoc, done
\* held: the registry held the tag under the department when the tag check
\* read it; readAt: the server clock at the read of a canAddLog that
\* accepted, until the second status read has accepted too; wrote: the ids
\* of the documents the call added
IdleCall == [pc |-> "idle", log |-> NoLogBase, held |-> FALSE, readAt |-> 0,
             wrote |-> {}, result |-> NoResult]

\* a request to the application: whether it has an Authorization header,
\* the header's value, and ACCESS_PASSWORD of the server's environment
\* (<<>> when unset); and what the middleware answers
NoRequest == [hasAuth |-> FALSE, auth |-> <<>>, env |-> <<>>]
NoResponse == [kind |-> "none", status |-> 0, wwwAuthenticate |-> FALSE]

NoProbe == [request |-> NoRequest, response |-> NoResponse,
            ipadTag |-> <<>>, newStatus |-> NoStatus, readOk |-> TRUE,
            queryOk |-> TRUE, local |-> NoLocalLogs, threw |-> FALSE,
            status |-> NoStatus, tried |-> <<>>, canAdd |-> FALSE,
            message |-> <<>>]

\* CACHE_DURATION = 5 * 60 * 1000, in time units
CACHE_DURATION == 2

\* LogForm before it mounts: tagsCache = {}, lastFetchTime = 0, the state
\* hooks at their initial values.  timerTag and timerEmployee: the tag and
\* the employeeId that the pending callback of tagCheckTimer has captured,
\* timerTag = <<>> when none is pending; entries: the tag entries typed
NoForm == [mounted |-> FALSE, tagsCache |-> <<>>, age |-> CACHE_DURATION,
           untilTick |-> 0, skipped |-> 0,
           status |-> StatusIn, employeeId |-> "", ipadTag |-> <<>>,
           timerTag |-> <<>>, timerEmployee |-> "",
           isSubmitting |-> FALSE, isValidTag |-> FALSE, error |-> <<>>,
           entries |-> 0]

\* an addTagToDepartment call between its awaits; pc: idle, getDoc, write,
\* done; snap: the document its getDoc returned
NoOp == [pc |-> "idle", department |-> <<>>, tag |-> <<>>, snap |-> NoDoc]
NoOps == [p \in Callers |-> NoOp]

NoAdmin == [name |-> "none", department |-> <<>>, newName |-> <<>>,
            tags |-> <<>>, ids |-> {}, ops |-> NoOps]

InitOthers ==
  /\ logs = {}
  /\ clock = 0
  /\ calls = [p \in Callers |-> IdleCall]
  /\ probe = NoProbe
  /\ admin = NoAdmin
  /\ form = NoForm

Init ==
  /\ registry \in InitialRegistries
  /\ InitOthers

InFlight == {p \in Callers : calls[p].pc # "idle"}
IdsOf(docs) == {d.id : d \in docs}

(***************************************************************************)
(* addLog, one action for each stretch between two awaits.                 *)
(***************************************************************************)
\* the caller invokes addLog(log)
Call(p, log) ==
  /\ calls[p].pc = "idle"
  /\ log.employeeId = EmployeeOf[p]
  /\ calls' = [calls EXCEPT ![p] =
        [IdleCall EXCEPT !.pc = "validateIpadTag", !.log = log]]
  /\ UNCHANGED <<registry, logs, clock>>

\* await validateIpadTag; throw when it is false
Validate(p, readOk) ==
  /\ calls[p].pc = "validateIpadTag"
  /\ LET c == calls[p]
         isValid == validateIpadTag(registry, c.log.ipadTag, c.log.department, readOk)
         held == \E id \in DOMAIN registry :
                   /\ registry[id].exists
                   /\ registry[id].department = c.log.department
                   /\ \E i \in 1..Len(registry[id].tags) :
                        registry[id].tags[i] = c.log.ipadTag
     IN calls' = [calls EXCEPT ![p] =
          IF validateIpadTagThrows(readOk)
          THEN [c EXCEPT !.pc = "done", !.held = held,
                         !.result = Rethrow(TRUE, MsgOfStoreError)]
          ELSE IF isValid
          THEN [c EXCEPT !.pc = "canAddLog", !.held = held]
          ELSE [c EXCEPT !.pc = "done", !.held = held,
                         !.result = Rethrow(TRUE, MsgTagNotFound)]]
  /\ UNCHANGED <<registry, logs, clock>>

\* await canAddLog; throw its message when canAdd is false
CheckCanAdd(p, readOk) ==
  /\ calls[p].pc = "canAddLog"
  /\ \E queryOk \in FallbackOutcomes(readOk), local \in FallbackStores(readOk) :
       LET c == calls[p]
           o == getIpadStatusOutcome(logs, local, c.log.ipadTag, readOk, queryOk)
           r == canAddLog(o.status, c.log.status)
       IN calls' = [calls EXCEPT ![p] =
            IF o.threw
            THEN [c EXCEPT !.pc = "done",
                           !.result = Rethrow(TRUE, MsgOfStoreError)]
            ELSE IF r.canAdd
            THEN [c EXCEPT !.pc = "getIpadStatus", !.readAt = clock]
            ELSE [c EXCEPT !.pc = "done",
                           !.result = Rethrow(TRUE, r.message)]]
  /\ UNCHANGED <<registry, logs, clock>>

\* the two same-status checks on the second status read: the message of
\* the Error they throw, or <<>> when they throw nothing
Recheck(currentStatus, status) ==
  IF currentStatus = StatusIn /\ status = StatusIn
  THEN MsgNotCheckedOutYet
  ELSE IF currentStatus = StatusOut /\ status = StatusOut
  THEN MsgNotCheckedInYet
  ELSE <<>>

\* await getIpadStatus; throw when the status is the requested one
ReadStatusAgain(p, readOk) ==
  /\ calls[p].pc = "getIpadStatus"
  /\ \E queryOk \in FallbackOutcomes(readOk), local \in FallbackStores(readOk) :
       LET c == calls[p]
           o == getIpadStatusOutcome(logs, local, c.log.ipadTag, readOk, queryOk)
           r == Recheck(o.status, c.log.status)
       IN calls' = [calls EXCEPT ![p] =
            IF o.threw
            THEN [c EXCEPT !.pc = "done",
                           !.result = Rethrow(TRUE, MsgOfStoreError)]
            ELSE IF r = <<>>
            THEN [c EXCEPT !.pc = "addDoc", !.readAt = 0]
            ELSE [c EXCEPT !.pc = "done",
                           !.result = Rethrow(TRUE, r)]]
  /\ UNCHANGED <<registry, logs, clock>>

\* a document written without the department of the submission
NewDocument_NoDepartment(log, id, timestamp) ==
  [id |-> id, employeeId |-> log.employeeId, ipadTag |-> log.ipadTag,
   department |-> <<>>, status |-> log.status, timestamp |-> timestamp]

\* the document addDoc writes: {...log, timestamp: serverTimestamp()}
NewDocument(log, id, timestamp) ==
  [id |-> id, employeeId |-> log.employeeId, ipadTag |-> log.ipadTag,
   department |-> log.department, status |-> log.status,
   timestamp |-> timestamp]

\* an addDoc that the store applies only when the tag's newest event has
\* another status
addDoc_IfStatusDiffers(docs, document) ==
  IF \E d \in docs :
       /\ d.ipadTag = document.ipadTag
       /\ d.status = document.status
       /\ \A e \in docs : e.ipadTag = d.ipadTag => e.timestamp <= d.timestamp
  THEN docs
  ELSE docs \cup {document}

\* addDoc on the collection: the document is added, whatever is stored
addDoc(docs, document) == docs \cup {document}

\* the Log that addLog returns: {...log, id: docRef.id}
ReturnedLog(log, id) ==
  [id |-> id, employeeId |-> log.employeeId, ipadTag |-> log.ipadTag,
   department |-> log.department, status |-> log.status]

\* the id the store gives to its n-th document: never used before
AutoId(n) == n

\* serverTimestamp(): the commit time of the n-th write, in ticks; the
\* server's timestamps increase strictly from one commit to the next
ServerTimestamp(n) == n

\* await addDoc, the store accepts the write and assigns id and timestamp
AppendOk(p, capacity) ==
  /\ calls[p].pc = "addDoc"
  /\ Cardinality(logs) < capacity
  /\ LET id == AutoId(clock + 1)
         timestamp == ServerTimestamp(clock + 1)
     IN /\ logs' = addDoc(logs, NewDocument(calls[p].log, id, timestamp))
        /\ clock' = clock + 1
        /\ calls' = [calls EXCEPT ![p] =
              [calls[p] EXCEPT !.pc = "done",
                               !.wrote = IdsOf(logs') \ IdsOf(logs),
                               !.result = Returned(ReturnedLog(calls[p].log, id))]]
  /\ UNCHANGED registry

\* await addDoc, the store rejects the write with an Error or with another
\* thrown value
AppendFails(p, isError) ==
  /\ calls[p].pc = "addDoc"
  /\ calls' = [calls EXCEPT ![p] =
        [calls[p] EXCEPT !.pc = "done",
                         !.result = Rethrow(isError, MsgOfStoreError)]]
  /\ UNCHANGED <<registry, logs, clock>>

\* the caller takes the result
Return(p) ==
  /\ calls[p].pc = "done"
  /\ calls' = [calls EXCEPT ![p] = IdleCall]
  /\ UNCHANGED <<registry, logs, clock>>

\* what addLog leaves alone
others == <<probe, admin, form>>

(***************************************************************************)
(* The calls of the administration page: a registry operation or           *)
(* deleteLogs, awaited one at a time.                                      *)
(***************************************************************************)
Upsert(department, tags) ==
  /\ registry' = upsertIpadDepartment(registry, department, tags)
  /\ UNCHANGED <<logs, clock, calls>>

RemoveTag(department, tag) ==
  /\ registry' = removeTagFromDepartment(registry, department, tag)
  /\ UNCHANGED <<logs, clock, calls>>

DeleteDept(department) ==
  /\ registry' = deleteDepartment(registry, department)
  /\ UNCHANGED <<logs, clock, calls>>

AddTag(department, tag) ==
  /\ registry' = addTagToDepartment(registry, department, tag)
  /\ UNCHANGED <<logs, clock, calls>>

Rename(oldName, newName) ==
  /\ registry' = renameIpadDepartment(registry, oldName, newName)
  /\ UNCHANGED <<logs, clock, calls>>

\* renameIpadDepartment with a store call that rejects; deleteDoc is called
\* only for names of different ids whose old document exists
RenameFails(oldName, newName, step) ==
  /\ step = "deleteDoc" =>
        /\ deptIdFor(oldName) # deptIdFor(newName)
        /\ registry[deptIdFor(oldName)].exists
  /\ registry' = renameIpadDepartmentFailsAt(registry, oldName, newName, step)
  /\ UNCHANGED <<logs, clock, calls>>

DeleteLogs(logIds) ==
  /\ logs' = deleteLogs(logs, logIds)
  /\ UNCHANGED <<registry, clock, calls>>

\* the call just made and its arguments
Recorded(name, department, newName, tags, ids) ==
  [name |-> name, department |-> department, newName |-> newName,
   tags |-> tags, ids |-> ids, ops |-> NoOps]

(***************************************************************************)
(* Spec: calls overlap and store calls may fail.                           *)
(***************************************************************************)
DoCall ==
  /\ \E p \in Callers, log \in LogBase : Call(p, log)
  /\ UNCHANGED others
DoValidate ==
  /\ \E p \in Callers, readOk \in BOOLEAN : Validate(p, readOk)
  /\ UNCHANGED others
DoCheckCanAdd ==
  /\ \E p \in Callers, readOk \in BOOLEAN : CheckCanAdd(p, readOk)
  /\ UNCHANGED others
DoReadStatusAgain ==
  /\ \E p \in Callers, readOk \in BOOLEAN : ReadStatusAgain(p, readOk)
  /\ UNCHANGED others
DoAppend ==
  /\ \E p \in Callers : AppendOk(p, MaxLogs)
  /\ UNCHANGED others
DoAppendFails ==
  /\ \E p \in Callers, isError \in BOOLEAN : AppendFails(p, isError)
  /\ UNCHANGED others
DoReturn ==
  /\ \E p \in Callers : Return(p)
  /\ UNCHANGED others

Next ==
  \/ DoCall
  \/ DoValidate
  \/ DoCheckCanAdd
  \/ DoReadStatusAgain
  \/ DoAppend
  \/ DoAppendFails
  \/ DoReturn

Spec == Init /\ [][Next]_vars

(***************************************************************************)
(* SpecRace: calls overlap and every store call succeeds.                  *)
(***************************************************************************)
RaceCall ==
  /\ \E p \in Callers, log \in LogBase : Call(p, log)
  /\ UNCHANGED others
RaceValidate ==
  /\ \E p \in Callers : Validate(p, TRUE)
  /\ UNCHANGED others
RaceCheckCanAdd ==
  /\ \E p \in Callers : CheckCanAdd(p, TRUE)
  /\ UNCHANGED others
RaceReadStatusAgain ==
  /\ \E p \in Callers : ReadStatusAgain(p, TRUE)
  /\ UNCHANGED others
RaceAppend ==
  /\ \E p \in Callers : AppendOk(p, MaxLogs)
  /\ UNCHANGED others
RaceReturn ==
  /\ \E p \in Callers : Return(p)
  /\ UNCHANGED others

NextRace ==
  \/ RaceCall
  \/ RaceValidate
  \/ RaceCheckCanAdd
  \/ RaceReadStatusAgain
  \/ RaceAppend
  \/ RaceReturn

SpecRace == Init /\ [][NextRace]_vars

(***************************************************************************)
(* SpecSeq: one call at a time and every store call succeeds.              *)
(***************************************************************************)
SeqCall ==
  /\ \E p \in Callers, log \in LogBase : InFlight = {} /\ Call(p, log)
  /\ UNCHANGED others
SeqValidate ==
  /\ \E p \in Callers : Validate(p, TRUE)
  /\ UNCHANGED others
SeqCheckCanAdd ==
  /\ \E p \in Callers : CheckCanAdd(p, TRUE)
  /\ UNCHANGED others
SeqReadStatusAgain ==
  /\ \E p \in Callers : ReadStatusAgain(p, TRUE)
  /\ UNCHANGED others
SeqAppend ==
  /\ \E p \in Callers : AppendOk(p, MaxLogsSeq)
  /\ UNCHANGED others
SeqReturn ==
  /\ \E p \in Callers : Return(p)
  /\ UNCHANGED others

NextSeq ==
  \/ SeqCall
  \/ SeqValidate
  \/ SeqCheckCanAdd
  \/ SeqReadStatusAgain
  \/ SeqAppend
  \/ SeqReturn

SpecSeq == Init /\ [][NextSeq]_vars

(***************************************************************************)
(* SpecStatus: the status functions called on their own, between addLog    *)
(* calls that run one at a time.  canAddLog(ipadTag, newStatus) awaits     *)
(* getIpadStatus(ipadTag); the store read of getLogs, the per-tag query of *)
(* Fallback 1 and the localStorage item of Fallback 2 are the inputs.      *)
(***************************************************************************)
ProbeCanAddLog(ipadTag, newStatus, readOk, queryOk, local) ==
  LET o == getIpadStatusOutcome(logs, local, ipadTag, readOk, queryOk)
      r == canAddLog(o.status, newStatus)
  IN /\ InFlight = {}
     /\ probe' = [request |-> NoRequest, response |-> NoResponse,
                  ipadTag |-> ipadTag, newStatus |-> newStatus,
                  readOk |-> readOk, queryOk |-> queryOk, local |-> local,
                  threw |-> o.threw, status |-> o.status, tried |-> o.tried,
                  canAdd |-> ~o.threw /\ r.canAdd,
                  message |-> IF o.threw THEN MsgOfStoreError ELSE r.message]
     /\ UNCHANGED <<registry, logs, clock, calls>>

StatusProbe ==
  /\ \E ipadTag \in Tags, newStatus \in Statuses, readOk \in BOOLEAN,
        queryOk \in BOOLEAN, local \in LocalStores :
       ProbeCanAddLog(ipadTag, newStatus, readOk, queryOk, local)
  /\ UNCHANGED <<admin, form>>
StatusAppend ==
  /\ \E p \in Callers : AppendOk(p, MaxLogs)
  /\ UNCHANGED others

NextStatus ==
  \/ SeqCall
  \/ SeqValidate
  \/ SeqCheckCanAdd
  \/ SeqReadStatusAgain
  \/ StatusAppend
  \/ SeqReturn
  \/ StatusProbe

SpecStatus == Init /\ [][NextStatus]_vars

(***************************************************************************)
(* SpecReg: the registry operations, from the empty registry.              *)
(***************************************************************************)
RegUpsert ==
  /\ \E department \in DeptNames, tags \in TagLists :
       /\ Upsert(department, tags)
       /\ admin' = Recorded("upsert", department, <<>>, tags, {})
  /\ UNCHANGED <<probe, form>>
RegRemoveTag ==
  /\ \E department \in DeptNames, tag \in RawTags :
       /\ RemoveTag(department, tag)
       /\ admin' = Recorded("removeTag", department, <<>>, <<tag>>, {})
  /\ UNCHANGED <<probe, form>>
RegDeleteDept ==
  /\ \E department \in DeptNames :
       /\ DeleteDept(department)
       /\ admin' = Recorded("deleteDepartment", department, <<>>, <<>>, {})
  /\ UNCHANGED <<probe, form>>
RegAddTag ==
  /\ \E department \in DeptNames, tag \in RawTags :
       /\ AddTag(department, tag)
       /\ admin' = Recorded("addTag", department, <<>>, <<tag>>, {})
  /\ UNCHANGED <<probe, form>>
RegRename ==
  /\ \E oldName \in DeptNames, newName \in DeptNames :
       /\ Rename(oldName, newName)
       /\ admin' = Recorded("rename", oldName, newName, <<>>, {})
  /\ UNCHANGED <<probe, form>>

RegRenameFails ==
  /\ \E oldName \in DeptNames, newName \in DeptNames, step \in RenameSteps :
       /\ RenameFails(oldName, newName, step)
       /\ admin' = Recorded("renameFailed", oldName, newName, <<>>, {})
  /\ UNCHANGED <<probe, form>>

InitReg == registry = EmptyRegistry /\ InitOthers

NextReg ==
  \/ RegUpsert
  \/ RegRemoveTag
  \/ RegDeleteDept
  \/ RegAddTag
  \/ RegRename
  \/ RegRenameFails

SpecReg == InitReg /\ [][NextReg]_vars

(***************************************************************************)
(* SpecAdmin: addLog calls, one at a time, while the administration page   *)
(* changes the registry and deletes logs between their steps.              *)
(***************************************************************************)
\* the departments and the tag the page works on in this specification
AdminDepts == {DeptER, DeptOR}
AdminTags == {TagA}

AdminAppend ==
  /\ \E p \in Callers : clock < MaxLogs /\ AppendOk(p, MaxLogs)
  /\ UNCHANGED others
AdminUpsert ==
  /\ \E department \in AdminDepts : Upsert(department, <<>>)
  /\ UNCHANGED others
AdminRemoveTag ==
  /\ \E department \in AdminDepts, tag \in AdminTags : RemoveTag(department, tag)
  /\ UNCHANGED others
AdminDeleteDept ==
  /\ \E department \in AdminDepts : DeleteDept(department)
  /\ UNCHANGED others
AdminAddTag ==
  /\ \E department \in AdminDepts, tag \in AdminTags : AddTag(department, tag)
  /\ UNCHANGED others
AdminRename ==
  /\ \E oldName \in AdminDepts, newName \in AdminDepts : Rename(oldName, newName)
  /\ UNCHANGED others
AdminDeleteLogs ==
  /\ \E logIds \in SUBSET {AutoId(n) : n \in 1..MaxLogs} :
       /\ logIds # {}
       /\ DeleteLogs(logIds)
       /\ admin' = Recorded("deleteLogs", <<>>, <<>>, <<>>, logIds)
  /\ UNCHANGED <<probe, form>>

NextAdmin ==
  \/ SeqCall
  \/ SeqValidate
  \/ SeqCheckCanAdd
  \/ SeqReadStatusAgain
  \/ AdminAppend
  \/ SeqReturn
  \/ AdminUpsert
  \/ AdminRemoveTag
  \/ AdminDeleteDept
  \/ AdminAddTag
  \/ AdminRename
  \/ AdminDeleteLogs

SpecAdmin == InitReg /\ [][NextAdmin]_vars

(***************************************************************************)
(* SpecImport: the status functions on a store that holds documents not    *)
(* written by addLog, some with null in their timestamp field.             *)
(***************************************************************************)
ImportedTimestamps == {NullTimestamp, TicksPerMs, 2 * TicksPerMs}
ImportedEvent(id) ==
  [id : {id}, employeeId : {EmployeeOf[1]}, ipadTag : Tags,
   department : {DeptER}, status : Statuses, timestamp : ImportedTimestamps]
ImportedStores ==
  {{d, e} : d \in ImportedEvent(AutoId(1)), e \in ImportedEvent(AutoId(2))}

InitImport ==
  /\ registry = EmptyRegistry
  /\ logs \in ImportedStores
  /\ clock = 2
  /\ calls = [p \in Callers |-> IdleCall]
  /\ probe = NoProbe
  /\ admin = NoAdmin
  /\ form = NoForm

NextImport == StatusProbe

SpecImport == InitImport /\ [][NextImport]_vars

(***************************************************************************)
(* SpecFlaky: addLog calls one at a time; the reads of the registry and of *)
(* the event store may fail, the append succeeds.  probe.tried lists the   *)
(* store calls of the call in flight and whether each succeeded.           *)
(* SpecFail: the same, and the append may fail too.                        *)
(***************************************************************************)
StoreCall(call, ok) == [call |-> call, ok |-> ok]
Logged(call, ok) == [probe EXCEPT !.tried = Append(@, StoreCall(call, ok))]

FlakyCall ==
  /\ \E p \in Callers, log \in LogBase : InFlight = {} /\ Call(p, log)
  /\ probe' = NoProbe
  /\ UNCHANGED <<admin, form>>
FlakyValidate ==
  /\ \E p \in Callers, readOk \in BOOLEAN :
       /\ Validate(p, readOk)
       /\ probe' = Logged("validateIpadTag", readOk)
  /\ UNCHANGED <<admin, form>>
FlakyCheckCanAdd ==
  /\ \E p \in Callers, readOk \in BOOLEAN :
       /\ CheckCanAdd(p, readOk)
       /\ probe' = Logged("getLogs", readOk)
  /\ UNCHANGED <<admin, form>>
FlakyReadStatusAgain ==
  /\ \E p \in Callers, readOk \in BOOLEAN :
       /\ ReadStatusAgain(p, readOk)
       /\ probe' = Logged("getLogs", readOk)
  /\ UNCHANGED <<admin, form>>
FlakyAppend ==
  /\ \E p \in Callers : AppendOk(p, MaxLogs)
  /\ probe' = Logged("addDoc", TRUE)
  /\ UNCHANGED <<admin, form>>
FlakyAppendFails ==
  /\ \E p \in Callers, isError \in BOOLEAN : AppendFails(p, isError)
  /\ probe' = Logged("addDoc", FALSE)
  /\ UNCHANGED <<admin, form>>
FlakyReturn ==
  /\ \E p \in Callers : Return(p)
  /\ probe' = NoProbe
  /\ UNCHANGED <<admin, form>>

NextFlaky ==
  \/ FlakyCall
  \/ FlakyValidate
  \/ FlakyCheckCanAdd
  \/ FlakyReadStatusAgain
  \/ FlakyAppend
  \/ FlakyReturn

SpecFlaky == Init /\ [][NextFlaky]_vars

NextFail ==
  \/ FlakyCall
  \/ FlakyValidate
  \/ FlakyCheckCanAdd
  \/ FlakyReadStatusAgain
  \/ FlakyAppend
  \/ FlakyAppendFails
  \/ FlakyReturn

SpecFail == Init /\ [][NextFail]_vars

(***************************************************************************)
(* LogForm.  Time is counted in units of half a CACHE_DURATION.  form.age  *)
(* is Date.now() - lastFetchTime, counted up to CACHE_DURATION only;       *)
(* form.untilTick is the time left until setInterval's next tick is due,   *)
(* negative once the tick is late; form.skipped counts the ticks in a row  *)
(* that loadAndCacheTags has answered with its early return.               *)
(***************************************************************************)
Min(a, b) == IF a <= b THEN a ELSE b

\* 'ไม่ระบุแผนก'
Unspecified == <<"unspecified">>

\* the keys every object literal inherits from Object.prototype, here
\* 'toString', and what reading one gives: a function
TagToString == <<"t", "o", "S", "t", "r", "i", "n", "g">>
ObjectPrototypeKeys == {TagToString}
PrototypeFunction == <<"function">>

\* the tags a terminal may be asked for
FormTags == Tags \cup ObjectPrototypeKeys

\* tagsCache.current[tag]: own property, else inherited, else undefined
CacheGet(cache, tag) ==
  IF tag \in DOMAIN cache THEN cache[tag]
  ELSE IF tag \in ObjectPrototypeKeys THEN PrototypeFunction
  ELSE <<>>

\* LogForm's findDepartmentForTag: tagsCache.current[tag] || 'ไม่ระบุแผนก'
findDepartmentForTag(cache, tag) ==
  IF CacheGet(cache, tag) # <<>> THEN CacheGet(cache, tag) ELSE Unspecified

\* LogForm's checkTagValidity: tag in tagsCache.current
checkTagValidity(cache, tag) ==
  tag # <<>> /\ (tag \in DOMAIN cache \/ tag \in ObjectPrototypeKeys)

\* the earlier LogForm's findDepartmentForTag: it reads the departments and
\* then the tags of each until one holds the tag; any throw gives the
\* sentinel
RECURSIVE FirstHolding(_, _, _)
FirstHolding(reg, departments, tag) ==
  IF departments = <<>> THEN Unspecified
  ELSE IF tag \in SeqToSet(getTagsByDepartment(reg, Head(departments)))
  THEN Head(departments)
  ELSE FirstHolding(reg, Tail(departments), tag)

findDepartmentForTagScan(reg, tag, deptsOk, tagsOk) ==
  LET departments == getDepartmentsFromDB(reg, deptsOk)
  IN IF departments # <<>> /\ getTagsByDepartmentThrows(tagsOk) THEN Unspecified
     ELSE FirstHolding(reg, departments, tag)

\* the caches a load can build: newCache[tag] = dept for every tag of every
\* department, the assignments in the order in which the reads complete
NewCaches(reg, deptsOk) ==
  LET departments == SeqToSet(getDepartmentsFromDB(reg, deptsOk))
      tagsOf(d) == SeqToSet(getTagsByDepartment(reg, d))
      listed == UNION {tagsOf(d) : d \in departments}
  IN {c \in [listed -> departments] : \A t \in listed : t \in tagsOf(c[t])}

\* a loadAndCacheTags whose freshness guard holds on an equal age too
LoadAndCacheTags_SkipAtDuration(f, reg, deptsOk, tagsOk) ==
  {[f EXCEPT !.skipped = Min(@ + 1, 2)]}

\* loadAndCacheTags: the states of the form it can leave
LoadAndCacheTags(f, reg, deptsOk, tagsOk) ==
  IF f.age < CACHE_DURATION
  THEN {[f EXCEPT !.skipped = Min(@ + 1, 2)]}                 \* early return
  ELSE IF getDepartmentsFromDB(reg, deptsOk) # <<>> /\ getTagsByDepartmentThrows(tagsOk)
  THEN {[f EXCEPT !.skipped = 0]}                             \* catch: logged only
  ELSE {[f EXCEPT !.tagsCache = c, !.age = 0, !.skipped = 0] :
          c \in NewCaches(reg, deptsOk)}

\* the component mounts: the initial load, and setInterval
Mount(deptsOk, tagsOk) ==
  /\ ~form.mounted
  /\ \E f \in LoadAndCacheTags(form, registry, deptsOk, tagsOk) :
       form' = [f EXCEPT !.mounted = TRUE, !.untilTick = CACHE_DURATION]
  /\ UNCHANGED <<registry, logs, clock, calls>>

\* a time unit passes; a tick is never later than MaxDelay
TimePasses ==
  /\ form.mounted
  /\ form.untilTick > -MaxDelay
  /\ form' = [form EXCEPT !.age = Min(@ + 1, CACHE_DURATION), !.untilTick = @ - 1]
  /\ UNCHANGED <<registry, logs, clock, calls>>

\* the interval timer fires; the next tick is due CACHE_DURATION after this
\* one was due, or after it fired
Tick(deptsOk, tagsOk) ==
  /\ form.mounted
  /\ form.untilTick <= 0
  /\ \E f \in LoadAndCacheTags(form, registry, deptsOk, tagsOk),
        next \in {form.untilTick + CACHE_DURATION, CACHE_DURATION} :
       form' = [f EXCEPT !.untilTick = next]
  /\ UNCHANGED <<registry, logs, clock, calls>>

(***************************************************************************)
(* SpecCache: LogForm's cache while the administration page adds and       *)
(* removes tags; every registry read succeeds.  SpecCacheFair: time passes *)
(* and a due timer fires.                                                  *)
(***************************************************************************)
CacheMount ==
  /\ Mount(TRUE, TRUE)
  /\ UNCHANGED <<probe, admin>>
CacheTimePasses ==
  /\ TimePasses
  /\ UNCHANGED <<probe, admin>>
CacheTick ==
  /\ Tick(TRUE, TRUE)
  /\ UNCHANGED <<probe, admin>>

NextCache ==
  \/ CacheMount
  \/ CacheTimePasses
  \/ CacheTick
  \/ AdminAddTag
  \/ AdminRemoveTag

SpecCache == InitReg /\ [][NextCache]_vars

SpecCacheFair ==
  /\ SpecCache
  /\ WF_vars(CacheMount)
  /\ WF_vars(CacheTimePasses)
  /\ WF_vars(CacheTick)

(***************************************************************************)
(* SpecLookup: LogForm's cache and the list reads of the pages while the   *)
(* registry reads may fail.  probe records the latest list read: the       *)
(* function called, whether it threw, and the list it returned.            *)
(***************************************************************************)
ListRead(name, readOk, threw, list) ==
  [NoProbe EXCEPT !.tried = <<name>>, !.readOk = readOk, !.threw = threw,
                  !.message = list]

ReadDepartments(readOk) ==
  /\ probe' = ListRead("getDepartmentsFromDB", readOk,
                       getDepartmentsFromDBThrows(readOk),
                       getDepartmentsFromDB(registry, readOk))
  /\ UNCHANGED <<registry, logs, clock, calls>>

ReadTags(department, readOk) ==
  /\ probe' = ListRead("getTagsByDepartment", readOk,
                       getTagsByDepartmentThrows(readOk),
                       IF getTagsByDepartmentThrows(readOk) THEN <<>>
                       ELSE getTagsByDepartment(registry, department))
  /\ UNCHANGED <<registry, logs, clock, calls>>

LookupMount ==
  /\ \E deptsOk \in BOOLEAN, tagsOk \in BOOLEAN : Mount(deptsOk, tagsOk)
  /\ UNCHANGED <<probe, admin>>
LookupTick ==
  /\ \E deptsOk \in BOOLEAN, tagsOk \in BOOLEAN : Tick(deptsOk, tagsOk)
  /\ UNCHANGED <<probe, admin>>
LookupReadDepartments ==
  /\ \E readOk \in BOOLEAN : ReadDepartments(readOk)
  /\ UNCHANGED <<admin, form>>
LookupReadTags ==
  /\ \E department \in DeptNames, readOk \in BOOLEAN : ReadTags(department, readOk)
  /\ UNCHANGED <<admin, form>>

NextLookup ==
  \/ LookupMount
  \/ CacheTimePasses
  \/ LookupTick
  \/ AdminAddTag
  \/ AdminRemoveTag
  \/ LookupReadDepartments
  \/ LookupReadTags

SpecLookup == InitReg /\ [][NextLookup]_vars

(***************************************************************************)
(* SpecDelete: addLog calls, one at a time, while the page deletes logs    *)
(* and the batch commit may fail.                                          *)
(***************************************************************************)
\* deleteLogs(logIds) with its outcome
DeleteLogsCall(logIds, commitOk) ==
  LET o == deleteLogsOutcome(logs, logIds, commitOk)
  IN /\ logs' = o.docs
     /\ probe' = [NoProbe EXCEPT !.tried = <<"deleteLogs">>, !.readOk = commitOk,
                                 !.threw = o.threw, !.message = o.message]
     /\ admin' = Recorded("deleteLogs", <<>>, <<>>, <<>>, logIds)
     /\ UNCHANGED <<registry, clock, calls>>

DelAppend ==
  /\ \E p \in Callers : clock < MaxLogs /\ AppendOk(p, MaxLogs)
  /\ UNCHANGED others
DelDeleteLogs ==
  /\ \E logIds \in SUBSET {AutoId(n) : n \in 1..MaxLogs} :
       logIds # {} /\ DeleteLogsCall(logIds, TRUE)
  /\ UNCHANGED form
DelDeleteLogsFails ==
  /\ \E logIds \in SUBSET {AutoId(n) : n \in 1..MaxLogs} :
       logIds # {} /\ DeleteLogsCall(logIds, FALSE)
  /\ UNCHANGED form

NextDelete ==
  \/ SeqCall
  \/ SeqValidate
  \/ SeqCheckCanAdd
  \/ SeqReadStatusAgain
  \/ DelAppend
  \/ SeqReturn
  \/ DelDeleteLogs
  \/ DelDeleteLogsFails

InitDelete == registry = RegistryTwoDepts /\ InitOthers

SpecDelete == InitDelete /\ [][NextDelete]_vars

(***************************************************************************)
(* LogForm's submission of a tag.  The input is disabled while             *)
(* isSubmitting is true, so its change and key handlers run only while it  *)
(* is false; the callback of tagCheckTimer runs whenever it is pending.    *)
(***************************************************************************)
MaxEntries == 2

\* the messages processTag sets with setError before it calls addLog
MsgFillAll == <<"please fill in all fields">>
MsgTagUnknown == <<"tag not found in the system">>

\* what the operator may have in the two inputs
TypedEmployees == {"", EmployeeOf[1]}
TypedTags == {<<>>, TagA, TagSpA}

\* a processTag without its first check
processTag_NoCheck(f, tag, employeeId) ==
  [form |-> [f EXCEPT !.isSubmitting = TRUE, !.error = <<>>, !.isValidTag = TRUE],
   calls |-> TRUE,
   log |-> [employeeId |-> employeeId, ipadTag |-> tag,
            department |-> findDepartmentForTag(f.tagsCache, tag),
            status |-> f.status]]

\* processTag up to its await: the form it leaves, whether it calls addLog,
\* and with which log
processTag(f, tag, employeeId) ==
  IF tag = <<>> \/ employeeId = ""
  THEN [form |-> [f EXCEPT !.error = MsgFillAll], calls |-> FALSE, log |-> NoLogBase]
  ELSE IF ~checkTagValidity(f.tagsCache, tag)
  THEN \* setIsSubmitting(true), setError(...), finally setIsSubmitting(false)
       [form |-> [f EXCEPT !.isSubmitting = FALSE, !.error = MsgTagUnknown,
                           !.isValidTag = FALSE],
        calls |-> FALSE, log |-> NoLogBase]
  ELSE [form |-> [f EXCEPT !.isSubmitting = TRUE, !.error = <<>>, !.isValidTag = TRUE],
        calls |-> TRUE,
        log |-> [employeeId |-> employeeId, ipadTag |-> tag,
                 department |-> findDepartmentForTag(f.tagsCache, tag),
                 status |-> f.status]]

\* a handler runs processTag(tag) on the form f; the addLog call takes a
\* free place of calls
ProcessTag(f, tag, employeeId) ==
  LET r == processTag(f, tag, employeeId)
  IN /\ form' = r.form
     /\ IF r.calls
        THEN \E p \in Callers :
               /\ calls[p].pc = "idle"
               /\ \A q \in Callers : calls[q].pc = "idle" => p <= q
               /\ calls' = [calls EXCEPT ![p] =
                     [IdleCall EXCEPT !.pc = "validateIpadTag", !.log = r.log]]
        ELSE calls' = calls
     /\ UNCHANGED <<registry, logs, clock, probe, admin>>

\* the initial loadAndCacheTags completes
FormMount ==
  /\ Mount(TRUE, TRUE)
  /\ UNCHANGED <<probe, admin>>

\* the employee input changes: setEmployeeId
FormTypeEmployee ==
  /\ \E employeeId \in TypedEmployees :
       /\ ~form.isSubmitting
       /\ employeeId # form.employeeId
       /\ form' = [form EXCEPT !.employeeId = employeeId]
  /\ UNCHANGED <<registry, logs, clock, calls, probe, admin>>

\* handleIpadTagChange: the pending timer is cleared, and a new one set for
\* a value that is not blank
FormTypeTag ==
  /\ \E value \in TypedTags :
       /\ ~form.isSubmitting
       /\ Trim(value) # <<>> => form.entries < MaxEntries
       /\ form' = IF Trim(value) = <<>>
                  THEN [form EXCEPT !.ipadTag = value, !.timerTag = <<>>,
                                    !.timerEmployee = "", !.isValidTag = FALSE]
                  ELSE [form EXCEPT !.ipadTag = value, !.timerTag = Trim(value),
                                    !.timerEmployee = form.employeeId,
                                    !.entries = @ + 1]
  /\ UNCHANGED <<registry, logs, clock, calls, probe, admin>>

\* the callback of tagCheckTimer, 300 ms after the last change
FormTimerFires ==
  /\ form.timerTag # <<>>
  /\ LET f == [form EXCEPT !.timerTag = <<>>, !.timerEmployee = "",
                            !.isValidTag = checkTagValidity(form.tagsCache, form.timerTag)]
     IN IF checkTagValidity(form.tagsCache, form.timerTag)
        THEN ProcessTag(f, form.timerTag, form.timerEmployee)
        ELSE /\ form' = f
             /\ UNCHANGED <<registry, logs, clock, calls, probe, admin>>

\* handleIpadTagKeyPress with Enter
FormPressEnter ==
  /\ ~form.isSubmitting
  /\ Trim(form.ipadTag) # <<>>
  /\ ProcessTag(form, Trim(form.ipadTag), form.employeeId)

\* handleKeyDown with space or comma
FormPressSpace ==
  /\ ~form.isSubmitting
  /\ Trim(form.ipadTag) # <<>>
  /\ form.isValidTag
  /\ ProcessTag(form, Trim(form.ipadTag), form.employeeId)

\* a processTag without finally block: isSubmitting stays after a rejection
FormSettle_NoFinally ==
  /\ \E p \in Callers :
       /\ calls[p].pc = "done"
       /\ form' = IF calls[p].result.kind = "event"
                  THEN [form EXCEPT !.isSubmitting = FALSE, !.ipadTag = <<>>]
                  ELSE [form EXCEPT !.error = calls[p].result.message]
       /\ calls' = [calls EXCEPT ![p] = IdleCall]
  /\ UNCHANGED <<registry, logs, clock, probe, admin>>

\* the addLog promise settles and processTag runs to its end: setIpadTag('')
\* after a success, setError after a rejection, setIsSubmitting(false)
FormSettle ==
  /\ \E p \in Callers :
       /\ calls[p].pc = "done"
       /\ form' = IF calls[p].result.kind = "event"
                  THEN [form EXCEPT !.isSubmitting = FALSE, !.ipadTag = <<>>]
                  ELSE [form EXCEPT !.isSubmitting = FALSE,
                                    !.error = calls[p].result.message]
       /\ calls' = [calls EXCEPT ![p] = IdleCall]
  /\ UNCHANGED <<registry, logs, clock, probe, admin>>

NextForm ==
  \/ FormMount
  \/ FormTypeEmployee
  \/ FormTypeTag
  \/ FormTimerFires
  \/ FormPressSpace
  \/ FormPressEnter
  \/ DoValidate
  \/ DoCheckCanAdd
  \/ DoReadStatusAgain
  \/ DoAppend
  \/ DoAppendFails
  \/ FormSettle

InitForm == registry = RegistryTwoDepts /\ InitOthers

SpecForm == InitForm /\ [][NextForm]_vars

\* every await of addLog ends, and processTag resumes when addLog settled
SpecFormFair ==
  /\ SpecForm
  /\ WF_vars(DoValidate)
  /\ WF_vars(DoCheckCanAdd)
  /\ WF_vars(DoReadStatusAgain)
  /\ WF_vars(DoAppend \/ DoAppendFails)
  /\ WF_vars(FormSettle)

(***************************************************************************)
(* The access middleware.  A string is the sequence of its characters, a   *)
(* decoded string the sequence of its character codes.                     *)
(***************************************************************************)
B64Alphabet ==
  <<"A", "B", "C", "D", "E", "F", "G", "H", "I", "J", "K", "L", "M", "N", "O", "P",
    "Q", "R", "S", "T", "U", "V", "W", "X", "Y", "Z", "a", "b", "c", "d", "e", "f",
    "g", "h", "i", "j", "k", "l", "m", "n", "o", "p", "q", "r", "s", "t", "u", "v",
    "w", "x", "y", "z", "0", "1", "2", "3", "4", "5", "6", "7", "8", "9", "+", "/">>

B64Value(c) == (CHOOSE i \in 1..64 : B64Alphabet[i] = c) - 1

\* the bytes of base64 characters without padding
RECURSIVE B64Bytes(_)
B64Bytes(s) ==
  IF Len(s) >= 4
  THEN LET n == B64Value(s[1]) * 262144 + B64Value(s[2]) * 4096 +
                B64Value(s[3]) * 64 + B64Value(s[4])
       IN <<n \div 65536, (n \div 256) % 256, n % 256>> \o B64Bytes(SubSeq(s, 5, Len(s)))
  ELSE IF Len(s) = 3
  THEN LET n == (B64Value(s[1]) * 4096 + B64Value(s[2]) * 64 + B64Value(s[3])) \div 4
       IN <<n \div 256, n % 256>>
  ELSE IF Len(s) = 2
  THEN <<(B64Value(s[1]) * 64 + B64Value(s[2])) \div 16>>
  ELSE <<>>

\* atob: forgiving-base64 decode; it throws on a length of 1 modulo 4 and on
\* a character outside the alphabet
atob(data) ==
  LET noWs == SelectSeq(data, LAMBDA c : ~IsWs(c))
      n == Len(noWs)
      stripped == IF n > 0 /\ n % 4 = 0 /\ noWs[n] = "="
                  THEN IF noWs[n - 1] = "=" THEN SubSeq(noWs, 1, n - 2)
                       ELSE SubSeq(noWs, 1, n - 1)
                  ELSE noWs
      alphabet == {B64Alphabet[i] : i \in 1..64}
  IN IF Len(stripped) % 4 = 1 \/ \E i \in 1..Len(stripped) : stripped[i] \notin alphabet
     THEN [threw |-> TRUE, decoded |-> <<>>]
     ELSE [threw |-> FALSE, decoded |-> B64Bytes(stripped)]

\* String.prototype.split(separator)
RECURSIVE Split(_, _)
Split(s, separator) ==
  IF \E i \in 1..Len(s) : s[i] = separator
  THEN LET i == CHOOSE k \in 1..Len(s) :
                  s[k] = separator /\ \A j \in 1..(k - 1) : s[j] # separator
       IN <<SubSeq(s, 1, i - 1)>> \o Split(SubSeq(s, i + 1, Len(s)), separator)
  ELSE <<s>>

\* String(undefined), what atob makes of a missing argument
UndefinedString == <<"u", "n", "d", "e", "f", "i", "n", "e", "d">>

\* the default of PASSWORD, "p" standing for "Ram#10240"
DefaultPassword == <<112>>
PASSWORD(env) == IF env # <<>> THEN env ELSE DefaultPassword

unauthorized == [kind |-> "response", status |-> 401, wwwAuthenticate |-> TRUE]
NextResponseNext == [kind |-> "next", status |-> 0, wwwAuthenticate |-> FALSE]
\* an uncaught exception in the middleware
MiddlewareThrows == [kind |-> "throws", status |-> 500, wwwAuthenticate |-> FALSE]

middleware(req) ==
  IF ~req.hasAuth \/ req.auth = <<>> THEN unauthorized
  ELSE LET parts == Split(req.auth, " ")
           scheme == parts[1]
           a == atob(IF Len(parts) >= 2 THEN parts[2] ELSE UndefinedString)
           fields == Split(a.decoded, 58)
           pass == IF Len(fields) >= 2 /\ fields[2] # <<>> THEN fields[2] ELSE a.decoded
       IN IF scheme # <<"B", "a", "s", "i", "c">> THEN unauthorized
          ELSE IF a.threw THEN MiddlewareThrows
          ELSE IF pass = PASSWORD(req.env) THEN NextResponseNext
          ELSE unauthorized

(***************************************************************************)
(* SpecAccess: requests arrive, with and without Authorization header, and *)
(* the middleware answers each.                                            *)
(***************************************************************************)
Schemes == {<<"B", "a", "s", "i", "c">>, <<"b", "a", "s", "i", "c">>,
            <<"B", "e", "a", "r", "e", "r">>}

\* credentials: base64 of "p", "p" unpadded, ":p", "p:p", "p:q", "q:p",
\* "p:", "q", "p:p:p", "p:p:"; and strings that are not base64
Credentials ==
  {<<"c", "A", "=", "=">>, <<"c", "A">>, <<"O", "n", "A", "=">>,
   <<"c", "D", "p", "w">>, <<"c", "D", "p", "x">>, <<"c", "T", "p", "w">>,
   <<"c", "D", "o", "=">>, <<"c", "Q", "=", "=">>,
   <<"c", "D", "p", "w", "O", "n", "A", "=">>, <<"c", "D", "p", "w", "O", "g", "=", "=">>,
   <<"c">>, <<"c", "A", "=">>, <<"c", "!", "A", "=">>, <<"c", "D", "p", "w", "c">>}

AuthHeaders ==
  {<<>>} \cup Schemes \cup {scheme \o <<" ">> : scheme \in Schemes}
    \cup {scheme \o <<" ">> \o c : scheme \in Schemes, c \in Credentials}

Environments == {<<>>, <<113>>}

Requests ==
  {[hasAuth |-> FALSE, auth |-> <<>>, env |-> env] : env \in Environments}
    \cup {[hasAuth |-> TRUE, auth |-> auth, env |-> env] :
            auth \in AuthHeaders, env \in Environments}

\* a request arrives
AccessRequest ==
  /\ \E req \in Requests :
       probe' = [NoProbe EXCEPT !.request = req, !.tried = <<"middleware">>]
  /\ UNCHANGED <<registry, logs, clock, calls, admin, form>>

\* the middleware answers it
AccessMiddleware ==
  /\ probe.tried = <<"middleware">>
  /\ probe.response = NoResponse
  /\ probe' = [probe EXCEPT !.response = middleware(probe.request)]
  /\ UNCHANGED <<registry, logs, clock, calls, admin, form>>

NextAccess ==
  \/ AccessRequest
  \/ AccessMiddleware

SpecAccess == InitReg /\ [][NextAccess]_vars

(***************************************************************************)
(* SpecTagRace: addTagToDepartment calls of two administration pages,      *)
(* interleaved at their awaits; every store call succeeds.                 *)
(***************************************************************************)
\* the page calls addTagToDepartment; a blank tag returns at once
TagCall ==
  /\ \E p \in Callers, department \in DeptNames, tag \in RawTags :
       /\ admin.ops[p].pc = "idle"
       /\ Trim(tag) # <<>>
       /\ admin' = [admin EXCEPT !.ops[p] =
             [pc |-> "getDoc", department |-> department, tag |-> tag, snap |-> NoDoc]]
  /\ UNCHANGED <<registry, logs, clock, calls, probe, form>>

\* await getDoc
TagRead ==
  /\ \E p \in Callers :
       /\ admin.ops[p].pc = "getDoc"
       /\ admin' = [admin EXCEPT !.ops[p].pc = "write",
                                 !.ops[p].snap = registry[deptIdFor(admin.ops[p].department)]]
  /\ UNCHANGED <<registry, logs, clock, calls, probe, form>>

\* await updateDoc or setDoc, or neither; updateDoc needs the document
TagWrite ==
  /\ \E p \in Callers :
       LET op == admin.ops[p]
       IN /\ op.pc = "write"
          /\ op.snap.exists => registry[deptIdFor(op.department)].exists
          /\ registry' = addTagWrite(registry, op.department, op.tag, op.snap)
          /\ admin' = [admin EXCEPT !.ops[p].pc = "done"]
  /\ UNCHANGED <<logs, clock, calls, probe, form>>

\* the page takes the result
TagReturn ==
  /\ \E p \in Callers :
       /\ admin.ops[p].pc = "done"
       /\ admin' = [admin EXCEPT !.ops[p] = NoOp]
  /\ UNCHANGED <<registry, logs, clock, calls, probe, form>>

NextTagRace ==
  \/ TagCall
  \/ TagRead
  \/ TagWrite
  \/ TagReturn

SpecTagRace == InitReg /\ [][NextTagRace]_vars

TypeOK ==
  /\ registry \in [DocIds -> {NoDoc} \cup
        {IpadDocument(d, t) : d \in DeptNames,
           t \in {<<>>} \cup {<<x>> : x \in Tags} \cup {<<x, y>> : x \in Tags, y \in Tags}}]
  /\ clock \in Nat
  /\ \A p \in Callers : calls[p].pc \in
        {"idle", "validateIpadTag", "canAddLog", "getIpadStatus", "addDoc", "done"}

(***************************************************************************)
(* Notions the properties are stated with, defined apart from the code.    *)
(***************************************************************************)
EventsOf(docs, ipadTag) == {d \in docs : d.ipadTag = ipadTag}

\* the status of the event of the tag with the greatest timestamp
LatestStatus(docs, ipadTag) ==
  IF EventsOf(docs, ipadTag) = {} THEN NoStatus
  ELSE (CHOOSE d \in EventsOf(docs, ipadTag) :
          \A e \in EventsOf(docs, ipadTag) : e.timestamp <= d.timestamp).status

\* two events of one tag with no event of that tag between them
Consecutive(docs, d, e) ==
  /\ d.ipadTag = e.ipadTag
  /\ d.timestamp < e.timestamp
  /\ ~\E f \in EventsOf(docs, d.ipadTag) :
        d.timestamp < f.timestamp /\ f.timestamp < e.timestamp

\* some tag has two consecutive events of the same status
DoubleStatus(docs) ==
  \E d \in docs, e \in docs : Consecutive(docs, d, e) /\ d.status = e.status

\* the registry document of the department holds the tag
RegisteredUnder(reg, ipadTag, department) ==
  LET document == reg[deptIdFor(department)]
  IN /\ document.exists
     /\ document.department = department
     /\ \E i \in 1..Len(document.tags) : document.tags[i] = ipadTag

\* the event store as it was before the call of p wrote to it
LogsBefore(p) == {d \in logs : d.id \notin calls[p].wrote}

Done(p) == calls[p].pc = "done"
Threw(p, message) ==
  Done(p) /\ calls[p].result.kind = "error" /\ calls[p].result.message = message

(***************************************************************************)
(* C1 (SpecSeq): when the newest event of a registered tag has status X,   *)
(* an addLog call for the tag with status X ends with the duplicate-status *)
(* error of canAddLog and has appended nothing; for X check-in and X       *)
(* check-out.                                                              *)
(***************************************************************************)
C1_DuplicateRejected ==
  \A p \in Callers :
    LET log == calls[p].log
    IN (/\ Done(p)
        /\ RegisteredUnder(registry, log.ipadTag, log.department)
        /\ LatestStatus(LogsBefore(p), log.ipadTag) = log.status)
       => /\ Threw(p, MsgAlreadyInStatus(log.status))
          /\ calls[p].wrote = {}
          /\ LogsBefore(p) = logs

C1_Witness ==
  \E p \in Callers :
    /\ Threw(p, MsgAlreadyInStatus(StatusOut))
    /\ LatestStatus(logs, calls[p].log.ipadTag) = StatusOut
    /\ \E d \in logs : d.status = StatusIn

(***************************************************************************)
(* C2 (SpecSeq): the events of each tag, in timestamp order, alternate     *)
(* between check-in and check-out, whichever status comes first.           *)
(***************************************************************************)
C2_Alternation ==
  \A d \in logs, e \in logs : Consecutive(logs, d, e) => d.status # e.status

C2_Witness ==
  \E t \in Tags :
    /\ Cardinality(EventsOf(logs, t)) = 3
    /\ \E d \in EventsOf(logs, t) :
         /\ d.status = StatusOut
         /\ \A e \in EventsOf(logs, t) : d.timestamp <= e.timestamp

(***************************************************************************)
(* C3 (SpecRace): the append of a call that has passed its three checks is *)
(* unconditional, so when two overlapping calls for one tag and one status *)
(* have both passed them, both append: a step in which a call returns an   *)
(* Event adds its document as the newest one also when the tag's newest    *)
(* event already has that status, and the store then holds two             *)
(* consecutive events of the same status.                                  *)
(***************************************************************************)
C3_StaleAppend ==
  [][\A p \in Callers :
       (/\ calls[p].pc = "addDoc"
        /\ calls'[p].result.kind = "event"
        /\ LatestStatus(logs, calls[p].log.ipadTag) = calls[p].log.status)
       => /\ Cardinality(logs') = Cardinality(logs) + 1
          /\ DoubleStatus(logs')]_vars

C3_Witness ==
  /\ DoubleStatus(logs)
  /\ \A p \in Callers : Done(p) /\ calls[p].result.kind = "event"
  /\ \A p \in Callers, q \in Callers :
       /\ calls[p].log.ipadTag = calls[q].log.ipadTag
       /\ calls[p].log.status = calls[q].log.status

(***************************************************************************)
(* C4 (Spec): for every content of the event store getIpadStatus gives,    *)
(* for a tag that has events, the status of its event with the greatest    *)
(* timestamp; and while the document a call has appended is still the      *)
(* newest one of the store, getIpadStatus of its tag gives the status that *)
(* call appended.                                                          *)
(***************************************************************************)
WroteNewest(p) ==
  /\ Done(p)
  /\ calls[p].result.kind = "event"
  /\ \E d \in logs :
       /\ d.id \in calls[p].wrote
       /\ \A e \in logs : e.timestamp <= d.timestamp

C4_StatusOfNewestEvent ==
  /\ \A t \in Tags :
       EventsOf(logs, t) # {} => getIpadStatus(logs, t, TRUE) = LatestStatus(logs, t)
  /\ \A p \in Callers :
       WroteNewest(p) =>
         getIpadStatus(logs, calls[p].log.ipadTag, TRUE) = calls[p].log.status

C4_Witness ==
  \E p \in Callers :
    /\ WroteNewest(p)
    /\ \E d \in EventsOf(logs, calls[p].log.ipadTag) : d.status # calls[p].log.status

(***************************************************************************)
(* C5 (Spec): getIpadStatus gives NONE for every tag that has no event in  *)
(* the event store, whatever events the other tags have.                   *)
(***************************************************************************)
C5_NoEventNoStatus ==
  \A t \in Tags :
    EventsOf(logs, t) = {} => getIpadStatus(logs, t, TRUE) = NoStatus

C5_Witness ==
  \E t \in Tags, u \in Tags :
    /\ EventsOf(logs, t) = {}
    /\ Cardinality(EventsOf(logs, u)) = 2

(***************************************************************************)
(* C6 (Spec): canAddLog follows the transition table: on the status that   *)
(* getIpadStatus gives for a tag it allows the requested status exactly    *)
(* when the current status is NONE or differs from it, a rejection carries *)
(* the message that names the repeated status, and no call ever ends with  *)
(* the message of the 'inconsistent status' branch.                        *)
(***************************************************************************)
C6_TransitionTable ==
  /\ \A t \in Tags, R \in Statuses :
       LET S == getIpadStatus(logs, t, TRUE)
           r == canAddLog(S, R)
       IN /\ r.canAdd = (S = NoStatus \/ S # R)
          /\ ~r.canAdd => r.message = MsgAlreadyInStatus(R)
          /\ r.message # MsgInconsistent(R)
  /\ \A p \in Callers, R \in Statuses : ~Threw(p, MsgInconsistent(R))

C6_Witness ==
  \E p \in Callers, q \in Callers :
    /\ calls[p].pc = "getIpadStatus"
    /\ calls[p].log.status = StatusIn
    /\ LatestStatus(logs, calls[p].log.ipadTag) = StatusOut
    /\ Threw(q, MsgAlreadyInStatus(StatusOut))
    /\ calls[q].log.ipadTag = calls[p].log.ipadTag

(***************************************************************************)
(* C7 (SpecRace): validateIpadTag(t, d) is true exactly when the registry  *)
(* document of department d holds tag t (exact match), and false for a tag *)
(* held only by another department; so with successful reads a call is     *)
(* rejected as tag-not-found exactly when its tag is not held by its       *)
(* department.                                                             *)
(***************************************************************************)
PastTagCheck(p) == calls[p].pc \notin {"idle", "validateIpadTag"}

C7_TagMembership ==
  /\ \A t \in Tags, d \in DeptNames :
       validateIpadTag(registry, t, d, TRUE) = RegisteredUnder(registry, t, d)
  /\ \A p \in Callers :
       PastTagCheck(p) =>
         (Threw(p, MsgTagNotFound)
            <=> ~RegisteredUnder(registry, calls[p].log.ipadTag, calls[p].log.department))

C7_Witness ==
  \E p \in Callers, d \in DeptNames :
    /\ Threw(p, MsgTagNotFound)
    /\ d # calls[p].log.department
    /\ deptIdFor(d) # deptIdFor(calls[p].log.department)
    /\ RegisteredUnder(registry, calls[p].log.ipadTag, d)
    /\ \E t \in Tags : RegisteredUnder(registry, t, calls[p].log.department)

(***************************************************************************)
(* C8 (Spec): an addLog call for a tag that its department does not hold   *)
(* ends at the tag check with the tag-not-found error and appends nothing, *)
(* for every history of the tag and every requested status; it never gets  *)
(* to a status check.                                                      *)
(***************************************************************************)
C8_UnregisteredRejected ==
  \A p \in Callers :
    (/\ PastTagCheck(p)
     /\ ~RegisteredUnder(registry, calls[p].log.ipadTag, calls[p].log.department))
    => /\ Threw(p, MsgTagNotFound)
       /\ calls[p].wrote = {}

C8_Witness ==
  \E p \in Callers :
    /\ Threw(p, MsgTagNotFound)
    /\ ~RegisteredUnder(registry, calls[p].log.ipadTag, calls[p].log.department)
    /\ LatestStatus(logs, calls[p].log.ipadTag) = calls[p].log.status

(***************************************************************************)
(* C9 (Spec): a call that returns an Event has appended exactly one        *)
(* document, that document carries the submitted employeeId, tag,          *)
(* department and status, and the returned Event carries the id the store  *)
(* assigned to it.                                                         *)
(***************************************************************************)
C9_ReturnedEventWritten ==
  \A p \in Callers :
    (Done(p) /\ calls[p].result.kind = "event") =>
      /\ Cardinality(calls[p].wrote) = 1
      /\ \E d \in logs :
           /\ calls[p].wrote = {d.id}
           /\ d.employeeId = calls[p].log.employeeId
           /\ d.ipadTag = calls[p].log.ipadTag
           /\ d.department = calls[p].log.department
           /\ d.status = calls[p].log.status
           /\ calls[p].result.event.id = d.id
           /\ \A e \in logs : e.id = d.id => e = d

C9_Witness ==
  \E p \in Callers, d \in logs, e \in logs :
    /\ Done(p)
    /\ calls[p].result.kind = "event"
    /\ calls[p].result.event.id = d.id
    /\ e.id # d.id
    /\ e.employeeId # d.employeeId

(***************************************************************************)
(* C10 (Spec): a call that ends with an error (tag rejected, transition    *)
(* rejected, append failed) ends with a thrown Error, and its last step    *)
(* leaves the event store as it was; the call has added no event; a call   *)
(* whose last step added nothing never returns an Event.                   *)
(***************************************************************************)
C10_ErrorAddsNothing ==
  [][\A p \in Callers :
       (calls[p].pc \notin {"idle", "done"} /\ calls'[p].pc = "done") =>
         /\ calls'[p].result.kind \in {"error", "event"}
         /\ calls'[p].result.kind = "error" => (logs' = logs /\ calls'[p].wrote = {})
         /\ logs' = logs => calls'[p].result.kind = "error"]_vars

C10_Witness ==
  \E p \in Callers :
    /\ Threw(p, MsgOfStoreError)
    /\ logs # {}
    /\ calls[p].wrote = {}

(***************************************************************************)
(* C11 (Spec): validateIpadTag never throws; it gives false when the       *)
(* department has no document and when the registry read fails, so every   *)
(* addLog call leaves its tag check either accepted, the registry holding  *)
(* the tag, or with the tag-not-found error, never with a store error.     *)
(***************************************************************************)
C11_TagCheckNeverThrows ==
  /\ [](\A t \in Tags, d \in DeptNames :
          /\ ~validateIpadTagThrows(TRUE)
          /\ ~validateIpadTagThrows(FALSE)
          /\ ~validateIpadTag(registry, t, d, FALSE)
          /\ ~registry[deptIdFor(d)].exists => ~validateIpadTag(registry, t, d, TRUE))
  /\ [][\A p \in Callers :
         (calls[p].pc = "validateIpadTag" /\ calls'[p].pc # "validateIpadTag") =>
           \/ calls'[p].pc = "canAddLog" /\ calls'[p].held
           \/ /\ calls'[p].pc = "done"
              /\ calls'[p].result = Thrown(MsgTagNotFound)]_vars

\* a call rejected as tag-not-found although the registry holds the tag:
\* its registry read has failed
C11_Witness ==
  \E p \in Callers : Threw(p, MsgTagNotFound) /\ calls[p].held

(***************************************************************************)
(* C14 (Spec): every rejection of addLog carries a message of its cause:   *)
(* tag not found, already checked in, already checked out, save failed;    *)
(* the messages of different causes differ, and the first three causes     *)
(* never give the save-failed message.                                     *)
(***************************************************************************)
TagNotFoundMsgs == {MsgTagNotFound}
AlreadyInMsgs == {MsgAlreadyInStatus(StatusIn), MsgNotCheckedOutYet}
AlreadyOutMsgs == {MsgAlreadyInStatus(StatusOut), MsgNotCheckedInYet}
SaveFailedMsgs == {MsgSaveFailed, MsgOfStoreError}

\* the messages of the cause that ends a call at the given step
MsgsOfCause(pc, status) ==
  IF pc = "validateIpadTag" THEN TagNotFoundMsgs
  ELSE IF pc = "addDoc" THEN SaveFailedMsgs
  ELSE IF status = StatusIn THEN AlreadyInMsgs
  ELSE AlreadyOutMsgs

C14_MessagePerCause ==
  /\ [](/\ TagNotFoundMsgs \cap (AlreadyInMsgs \cup AlreadyOutMsgs \cup SaveFailedMsgs) = {}
        /\ AlreadyInMsgs \cap (AlreadyOutMsgs \cup SaveFailedMsgs) = {}
        /\ AlreadyOutMsgs \cap SaveFailedMsgs = {})
  /\ [][\A p \in Callers :
         (/\ calls[p].pc \notin {"idle", "done"}
          /\ calls'[p].pc = "done"
          /\ calls'[p].result.kind # "event")
         => /\ calls'[p].result.kind = "error"
            /\ calls'[p].result.message \in MsgsOfCause(calls[p].pc, calls[p].log.status)]_vars

C14_Witness ==
  \E p \in Callers, q \in Callers :
    /\ Threw(p, MsgAlreadyInStatus(StatusIn))
    /\ Threw(q, MsgSaveFailed)

(***************************************************************************)
(* C15 (SpecRace).  The claim: the re-check on the second status read      *)
(* never rejects a submission that canAddLog accepted.                     *)
(***************************************************************************)
RecheckRejected(p) ==
  Threw(p, MsgNotCheckedOutYet) \/ Threw(p, MsgNotCheckedInYet)

AppendedSinceRead(p) ==
  {d \in logs :
     /\ d.timestamp > ServerTimestamp(calls[p].readAt)
     /\ d.ipadTag = calls[p].log.ipadTag
     /\ d.status = calls[p].log.status
     /\ d.employeeId # calls[p].log.employeeId}

C12_StatusNeverThrows ==
  probe # NoProbe =>
    /\ ~probe.threw
    /\ probe.message # MsgOfStoreError
    /\ ~probe.readOk =>
         /\ probe.status = NoStatus
         /\ probe.canAdd = canAddLog(NoStatus, probe.newStatus).canAdd
         /\ probe.message = canAddLog(NoStatus, probe.newStatus).message

\* a failed read answered as 'no history' for a tag that is checked in, so
\* that canAddLog accepts a second check-in
C12_Witness ==
  /\ probe # NoProbe
  /\ ~probe.readOk
  /\ ~probe.threw
  /\ probe.status = NoStatus
  /\ probe.newStatus = StatusIn
  /\ probe.canAdd
  /\ clock = 1
  /\ LatestStatus(logs, probe.ipadTag) = StatusIn

(***************************************************************************)
(* C20 (SpecStatus).  The claim: when the read of getLogs fails,           *)
(* getIpadStatus answers with the status of the latest event of the tag    *)
(* from the per-tag query and, when that query fails or finds no event,    *)
(* with the status from the localStorage fallback.                         *)
(***************************************************************************)
C20_FallbackChain ==
  [][(probe' # probe /\ ~probe'.readOk) =>
       LET q == QueryLatest(logs, probe'.ipadTag)
       IN IF probe'.queryOk /\ q # <<>>
          THEN probe'.status = q[1].status
          ELSE probe'.status = LocalStatus(probe'.local, probe'.ipadTag)]_vars

(***************************************************************************)
(* C13 (SpecReg): when renameIpadDepartment(old, new) has run for names    *)
(* with different ids, the tags of new are the tags old and new had        *)
(* before, every tag that was valid under old is valid under new, no tag   *)
(* is valid under old, and the document of old does not exist.             *)
(***************************************************************************)
RenamedAcrossIds ==
  /\ admin.name = "rename"
  /\ deptIdFor(admin.department) # deptIdFor(admin.newName)

C13_RenameMerges ==
  [][RenamedAcrossIds' =>
       LET old == admin'.department
           new == admin'.newName
       IN /\ SeqToSet(registry'[deptIdFor(new)].tags) =
                SeqToSet(registry[deptIdFor(old)].tags) \cup
                SeqToSet(registry[deptIdFor(new)].tags)
          /\ \A t \in Tags :
                validateIpadTag(registry, t, old, TRUE) =>
                  validateIpadTag(registry', t, new, TRUE)
          /\ \A t \in Tags : ~validateIpadTag(registry', t, old, TRUE)
          /\ ~registry'[deptIdFor(old)].exists]_vars

\* a rename has left one document, with the tags of two
C13_Witness ==
  /\ RenamedAcrossIds
  /\ ~registry[deptIdFor(admin.department)].exists
  /\ Len(registry[deptIdFor(admin.newName)].tags) = 2
  /\ \A t \in Tags : validateIpadTag(registry, t, admin.newName, TRUE)

(***************************************************************************)
(* C18 (SpecReg): from the empty registry, after any sequence of registry  *)
(* operations every stored tag list holds only trimmed, non-empty strings  *)
(* and holds no tag twice.                                                 *)
(***************************************************************************)
C18_TagListsNormalized ==
  \A id \in DocIds :
    LET tags == registry[id].tags
    IN \A i \in 1..Len(tags) :
         /\ tags[i] # <<>>
         /\ Trim(tags[i]) = tags[i]
         /\ \A j \in 1..Len(tags) : tags[j] = tags[i] => j = i

\* an upsert of a list with a tag typed twice, once untrimmed, into a
\* document that had another tag
C18_Witness ==
  /\ admin.name = "upsert"
  /\ admin.tags = <<TagSpA, TagA>>
  /\ registry[deptIdFor(admin.department)].tags = <<TagUpperA, TagA>>

(***************************************************************************)
(* C19 (SpecReg).  The claim: validateIpadTag gives the same answer for    *)
(* any two department names with the same normalized key.                  *)
(***************************************************************************)
C19_SameKeySameAnswer ==
  \A t \in Tags, name1 \in DeptNames, name2 \in DeptNames :
    deptIdFor(name1) = deptIdFor(name2) =>
      validateIpadTag(registry, t, name1, TRUE) =
        validateIpadTag(registry, t, name2, TRUE)

(***************************************************************************)
(* C16 (SpecAdmin): every event enters the store in the addDoc step of an  *)
(* addLog call whose tag check found the pair (tag, department) of its     *)
(* argument in the registry and whose two transition checks passed,        *)
(* whatever pair the caller took from its cache and however the registry   *)
(* changes meanwhile; the event carries that pair.                         *)
(***************************************************************************)
\* the call of p moves on to the step at
Enters(p, at) == calls[p].pc # at /\ calls'[p].pc = at

C16_EventsFromValidatedCalls ==
  [][/\ \A d \in logs' \ logs :
          \E p \in Callers :
            /\ calls[p].pc = "addDoc"
            /\ calls'[p].pc = "done"
            /\ calls[p].held
            /\ d.ipadTag = calls[p].log.ipadTag
            /\ d.department = calls[p].log.department
            /\ d.status = calls[p].log.status
            /\ d.employeeId = calls[p].log.employeeId
     /\ \A p \in Callers :
          /\ Enters(p, "canAddLog") =>
               /\ calls[p].pc = "validateIpadTag"
               /\ calls'[p].held
               /\ RegisteredUnder(registry, calls[p].log.ipadTag, calls[p].log.department)
          /\ Enters(p, "getIpadStatus") =>
               /\ calls[p].pc = "canAddLog"
               /\ LatestStatus(logs, calls[p].log.ipadTag) # calls[p].log.status
          /\ Enters(p, "addDoc") =>
               /\ calls[p].pc = "getIpadStatus"
               /\ LatestStatus(logs, calls[p].log.ipadTag) # calls[p].log.status]_vars

\* an event of a call that passed the tag check, for a pair the registry
\* has lost since
C16_Witness ==
  \E p \in Callers, d \in logs :
    /\ Done(p)
    /\ calls[p].held
    /\ d.id \in calls[p].wrote
    /\ ~RegisteredUnder(registry, d.ipadTag, d.department)

(***************************************************************************)
(* C17 (SpecAdmin): no step changes an event of the store: an event stays  *)
(* as it is unless deleteLogs was given its id, addLog adds one event      *)
(* under a new id, and a registry operation leaves the store unchanged.    *)
(***************************************************************************)
C17_EventsImmutable ==
  [][/\ \A d \in logs :
          \/ d \in logs'
          \/ /\ admin'.name = "deleteLogs"
             /\ d.id \in admin'.ids
             /\ d.id \notin IdsOf(logs')
     /\ \A d \in logs' \ logs : d.id \notin IdsOf(logs)
     /\ Cardinality(logs' \ logs) <= 1
     /\ logs' \ logs # {} => logs \subseteq logs'
     /\ registry' # registry => logs' = logs]_vars

\* deleteLogs was given the id of the first of two events; the second is
\* in the store
C17_Witness ==
  /\ admin.name = "deleteLogs"
  /\ admin.ids = {AutoId(1)}
  /\ clock = 2
  /\ IdsOf(logs) = {AutoId(2)}

(***************************************************************************)
(* C21 (SpecImport).  The claim: getIpadStatus does not throw on an event  *)
(* whose timestamp is missing or malformed, and such an event does not     *)
(* take the place of a well-formed event of the tag: when the tag has      *)
(* well-formed events the status is that of the newest of them.            *)
(***************************************************************************)
WellFormed(docs, ipadTag) ==
  {d \in EventsOf(docs, ipadTag) : d.timestamp # NullTimestamp}

NewestWellFormed(docs, ipadTag) ==
  {d \in WellFormed(docs, ipadTag) :
     \A e \in WellFormed(docs, ipadTag) : e.timestamp <= d.timestamp}

C21_MalformedNotNewest ==
  (probe # NoProbe /\ probe.readOk) =>
    /\ ~probe.threw
    /\ WellFormed(logs, probe.ipadTag) # {} =>
         probe.status \in {d.status : d \in NewestWellFormed(logs, probe.ipadTag)}

(***************************************************************************)
(* C22 (SpecFail).  The claim: a call makes at most one append attempt,    *)
(* and a failed store read or a failed append is its last store call: the  *)
(* call ends there with an error.                                          *)
(***************************************************************************)
AppendAttempts == {i \in 1..Len(probe.tried) : probe.tried[i].call = "addDoc"}
EndedInError == \E p \in Callers : Done(p) /\ calls[p].result.kind = "error"

\* the store call at i is the last one and the call has ended with an error
Terminal(i) == i = Len(probe.tried) /\ EndedInError

C27_NoDoubleUnderReadFailures ==
  [][\A d \in logs' \ logs : LatestStatus(logs, d.ipadTag) # d.status]_vars

(***************************************************************************)
(* C23 (SpecCacheFair): the freshness guard never answers two ticks in a   *)
(* row with its early return, and a tag that some department holds is      *)
(* eventually in the cache of the mounted form, unless it is removed       *)
(* first.                                                                  *)
(***************************************************************************)
HeldBy(reg, ipadTag, department) ==
  \E id \in DOMAIN reg :
    /\ reg[id].exists
    /\ reg[id].department = department
    /\ ipadTag \in SeqToSet(reg[id].tags)

HeldBySome(reg, ipadTag) == \E id \in DOMAIN reg : HeldBy(reg, ipadTag, reg[id].department)

C23_CacheCatchesUp ==
  /\ [](form.skipped <= 1)
  /\ \A t \in Tags :
       HeldBySome(registry, t) ~>
         (t \in DOMAIN form.tagsCache \/ ~HeldBySome(registry, t))

\* the guard has suppressed a refresh while a registered tag is not cached
C23_Witness ==
  /\ form.skipped = 1
  /\ HeldBySome(registry, TagA)
  /\ TagA \notin DOMAIN form.tagsCache

(***************************************************************************)
(* C24 (SpecLookup).  The claim: findDepartmentForTag gives a department   *)
(* that holds the tag in the registry, else the sentinel: the sentinel     *)
(* when no department holds the tag or a read fails, and after successful  *)
(* reads the first department of the scan that holds the tag.  It holds    *)
(* for the lookup in LogForm's cache and for the scan of the registry.     *)
(***************************************************************************)
DepartmentOrSentinel(reg, ipadTag, department) ==
  /\ department = Unspecified \/ HeldBy(reg, ipadTag, department)
  /\ ~HeldBySome(reg, ipadTag) => department = Unspecified

C24_DepartmentHoldsTag ==
  \A t \in FormTags :
    /\ DepartmentOrSentinel(registry, t, findDepartmentForTag(form.tagsCache, t))
    /\ \A deptsOk \in BOOLEAN, tagsOk \in BOOLEAN :
         LET department == findDepartmentForTagScan(registry, t, deptsOk, tagsOk)
         IN /\ DepartmentOrSentinel(registry, t, department)
            /\ (deptsOk /\ tagsOk /\ HeldBySome(registry, t)) =>
                 /\ department # Unspecified
                 /\ \A i \in 1..Len(DeptOrder) :
                      HeldBy(registry, t, DeptOrder[i]) =>
                        \E j \in 1..i : DeptOrder[j] = department

(***************************************************************************)
(* C26 (SpecLookup).  The claim: getDepartmentsFromDB and                  *)
(* getTagsByDepartment do not throw when the store read fails; each        *)
(* returns the empty list.                                                 *)
(***************************************************************************)
C26_ListReadsNeverThrow ==
  (probe.tried # <<>> /\ ~probe.readOk) =>
    /\ ~probe.threw
    /\ probe.message = <<>>

(***************************************************************************)
(* C25 (SpecReg): upsertIpadDepartment(department, tags) touches only the  *)
(* document with the normalized id of department.  When that document did  *)
(* not exist it exists afterwards and holds the given tags (each trimmed,  *)
(* blank ones left out); when it existed its tag set afterwards is the     *)
(* union of its tags before and the given tags, so that no tag it had is   *)
(* removed.  Running the same call again changes nothing.                  *)
(***************************************************************************)
Upserted == admin.name = "upsert" /\ Trim(admin.department) # <<>>

GivenTags(tags) == {Trim(tags[i]) : i \in DOMAIN tags} \ {<<>>}

C25_UpsertCreatesOrMerges ==
  [][Upserted' =>
       LET id == deptIdFor(admin'.department)
           given == GivenTags(admin'.tags)
       IN /\ registry'[id].exists
          /\ \A other \in DOMAIN registry \ {id} : registry'[other] = registry[other]
          /\ ~registry[id].exists => SeqToSet(registry'[id].tags) = given
          /\ registry[id].exists =>
                /\ SeqToSet(registry'[id].tags) = SeqToSet(registry[id].tags) \cup given
                /\ \A i \in DOMAIN registry[id].tags : registry'[id].tags[i] = registry[id].tags[i]
          /\ upsertIpadDepartment(registry', admin'.department, admin'.tags) = registry']_vars

\* an upsert of a blank and a tag has merged the tag into a document that
\* held another
C25_Witness ==
  /\ Upserted
  /\ admin.tags = <<TagBlank, TagUpperA>>
  /\ registry[deptIdFor(admin.department)].tags = <<TagA, TagUpperA>>

(***************************************************************************)
(* C29 (SpecReg): renameIpadDepartment(old, new) for names with the same   *)
(* id leaves every document but the one with that id as it was, creates    *)
(* and deletes no document, leaves the tags of that document as they were  *)
(* and, when the document exists, makes new its display name.              *)
(***************************************************************************)
RenamedWithinId ==
  /\ admin.name = "rename"
  /\ deptIdFor(admin.department) = deptIdFor(admin.newName)

C29_SameKeyRenameOnlyName ==
  [][RenamedWithinId' =>
       LET id == deptIdFor(admin'.department)
       IN /\ \A other \in DOMAIN registry \ {id} : registry'[other] = registry[other]
          /\ \A i \in DOMAIN registry : registry'[i].exists = registry[i].exists
          /\ registry'[id].tags = registry[id].tags
          /\ registry[id].exists => registry'[id].department = admin'.newName
          /\ ~registry[id].exists => registry'[id] = NoDoc]_vars

\* a document with two tags has taken another display name of its id, while
\* the other department has a document
C29_Witness ==
  /\ RenamedWithinId
  /\ admin.department = DeptER
  /\ admin.newName = DeptErSp
  /\ registry[deptIdFor(DeptER)] = IpadDocument(DeptErSp, <<TagA, TagUpperA>>)
  /\ registry[deptIdFor(DeptOR)].exists

(***************************************************************************)
(* C30 (SpecReg): removeTagFromDepartment(d, t) leaves every document but  *)
(* the one of d as it was; the document of d keeps its existence, its      *)
(* display name and every tag but t, in their order, and holds t no more,  *)
(* also when no tag is left.  When d has no document or its document does  *)
(* not hold t the registry is as before; without a document the call does  *)
(* not throw whether or not a write could succeed, and with one it does    *)
(* not throw when the store answers.                                       *)
(***************************************************************************)
RemovedTag == admin.name = "removeTag"

C30_RemoveTagOnlyThatTag ==
  [][RemovedTag' =>
       LET d == admin'.department
           t == admin'.tags[1]
           id == deptIdFor(d)
       IN /\ \A other \in DOMAIN registry \ {id} : registry'[other] = registry[other]
          /\ registry'[id].exists = registry[id].exists
          /\ registry'[id].department = registry[id].department
          /\ registry'[id].tags = SelectSeq(registry[id].tags, LAMBDA x : x # t)
          /\ SeqToSet(registry'[id].tags) = SeqToSet(registry[id].tags) \ {t}
          /\ (~registry[id].exists \/ t \notin SeqToSet(registry[id].tags)) =>
                registry' = registry
          /\ ~registry[id].exists =>
                \A writeOk \in BOOLEAN : ~removeTagFromDepartmentThrows(registry, d, TRUE, writeOk)
          /\ ~removeTagFromDepartmentThrows(registry, d, TRUE, TRUE)]_vars

\* the only tag of a document was removed under another display name of its
\* id: the document is still there, with its own display name and no tag
C30_Witness ==
  /\ RemovedTag
  /\ admin.department = DeptErSp
  /\ admin.tags = <<TagA>>
  /\ registry[deptIdFor(DeptErSp)] = IpadDocument(DeptER, <<>>)

(***************************************************************************)
(* C28 (SpecDelete): a deleteLogs(ids) that succeeds leaves exactly the    *)
(* events whose id is not in ids, each as it was, and then getIpadStatus   *)
(* of every tag is the status of the newest event left of the tag, or no   *)
(* status when none is left; a deleteLogs whose commit fails leaves the    *)
(* store as it was and throws its Error.  The transition check of every    *)
(* addLog call accepts exactly when the tag has no event in the store at   *)
(* that moment or the newest of them has another status than the one       *)
(* asked for.                                                              *)
(***************************************************************************)
DeleteStep == probe' # probe /\ probe'.tried = <<"deleteLogs">>

Accepts(docs, ipadTag, status) ==
  \/ EventsOf(docs, ipadTag) = {}
  \/ LatestStatus(docs, ipadTag) # status

C28_DeleteThenRederive ==
  [][/\ (DeleteStep /\ ~probe'.threw) =>
          /\ probe'.readOk
          /\ logs' \subseteq logs
          /\ \A d \in logs : d \in logs' <=> d.id \notin admin'.ids
          /\ \A t \in Tags : getIpadStatus(logs', t, TRUE) = LatestStatus(logs', t)
     /\ (DeleteStep /\ ~probe'.readOk) =>
          /\ logs' = logs
          /\ probe'.threw
          /\ probe'.message = MsgDeleteFailed
     /\ \A p \in Callers :
          (calls[p].pc = "canAddLog" /\ calls'[p].pc # "canAddLog") =>
            (calls'[p].pc = "getIpadStatus" <=>
               Accepts(logs, calls[p].log.ipadTag, calls[p].log.status))]_vars

\* the newer of the two events of a tag, a check-out, was deleted; the tag's
\* status is that of the check-in left, and a check-in asked for after the
\* delete was rejected by the transition check
C28_Witness ==
  /\ admin.name = "deleteLogs"
  /\ admin.ids = {AutoId(2)}
  /\ ~probe.threw
  /\ \E d \in logs :
       /\ logs = {d}
       /\ d.id = AutoId(1)
       /\ d.status = StatusIn
       /\ getIpadStatus(logs, d.ipadTag, TRUE) = StatusIn
       /\ \E p \in Callers :
            /\ calls[p].log.ipadTag = d.ipadTag
            /\ Threw(p, MsgAlreadyInStatus(StatusIn))

\* a deleteLogs whose commit failed has thrown, with two events in the store
C28_WitnessFailed ==
  /\ probe.tried = <<"deleteLogs">>
  /\ probe.threw
  /\ Cardinality(logs) = 2

(***************************************************************************)
(* C31 (SpecAdmin): a deleteDepartment(d) that deletes the document of d   *)
(* leaves validateIpadTag(t, d) false for every tag t, leaves every other  *)
(* document and every stored event as it was, events of tags of d          *)
(* included; and the tag check of an addLog call for a department without  *)
(* document ends the call with the tag-not-found error, nothing appended.  *)
(***************************************************************************)
DeletesDepartment(d) ==
  /\ registry[deptIdFor(d)].exists
  /\ registry' = deleteDepartment(registry, d)

C31_DeletedDepartmentRejects ==
  [][/\ \A d \in AdminDepts :
          DeletesDepartment(d) =>
            /\ \A t \in Tags : ~validateIpadTag(registry', t, d, TRUE)
            /\ \A other \in DOMAIN registry \ {deptIdFor(d)} :
                  registry'[other] = registry[other]
            /\ logs' = logs
     /\ \A p \in Callers :
          (/\ calls[p].pc = "validateIpadTag"
           /\ calls'[p].pc # "validateIpadTag"
           /\ ~registry[deptIdFor(calls[p].log.department)].exists) =>
            /\ calls'[p].pc = "done"
            /\ calls'[p].result = Thrown(MsgTagNotFound)
            /\ logs' = logs]_vars

\* an event of a tag of a department is in the store, the department has
\* no document any more while the other has one, and an addLog call for
\* the department has ended with the tag-not-found error
C31_Witness ==
  \E p \in Callers, e \in logs :
    /\ Threw(p, MsgTagNotFound)
    /\ e.department = calls[p].log.department
    /\ e.ipadTag = calls[p].log.ipadTag
    /\ ~registry[deptIdFor(e.department)].exists
    /\ \E id \in DOMAIN registry : registry[id].exists

(***************************************************************************)
(* C34 (SpecReg): when a store call of renameIpadDepartment(old, new) has  *)
(* rejected, whichever it was, every tag that the document of old or the   *)
(* document of new held before the call is held by one of the two after.   *)
(***************************************************************************)
RenameFailed == admin.name = "renameFailed"

TagsOfEither(reg, oldName, newName) ==
  SeqToSet(reg[deptIdFor(oldName)].tags) \cup SeqToSet(reg[deptIdFor(newName)].tags)

C34_FailedRenameKeepsTags ==
  [][RenameFailed' =>
       TagsOfEither(registry, admin'.department, admin'.newName) \subseteq
         TagsOfEither(registry', admin'.department, admin'.newName)]_vars

\* the deleteDoc of a rename has rejected: the document of new holds the
\* tags of both, and the document of old is still there with its tag
C34_Witness ==
  /\ RenameFailed
  /\ registry[deptIdFor(admin.department)].exists
  /\ Len(registry[deptIdFor(admin.department)].tags) = 1
  /\ Len(registry[deptIdFor(admin.newName)].tags) = 2
  /\ registry[deptIdFor(admin.newName)].department = admin.newName

(***************************************************************************)
(* C35 (SpecLookup).  The claim: a loadAndCacheTags whose registry read    *)
(* fails leaves tagsCache and lastFetchTime as they were; so the cache     *)
(* changes, and the age of the cache starts anew, only with a cache that   *)
(* a load with successful reads builds from the registry.                  *)
(***************************************************************************)
C35_FailedRefreshKeepsCache ==
  [][(form'.tagsCache # form.tagsCache \/ form'.age < form.age) =>
       form'.tagsCache \in NewCaches(registry, TRUE)]_vars

(***************************************************************************)
(* C36 (SpecDelete).  The claim: when handleDeleteSelectedLogs has run on  *)
(* a page whose list shows the events of the store, every event that is    *)
(* in the store after the deleteLogs call has settled is in the list.      *)
(***************************************************************************)
C36_ListShowsStoredEvents ==
  [][DeleteStep =>
       \A d \in logs' : d \in logs => d \in handleDeleteSelectedLogs(logs, admin'.ids)]_vars

(***************************************************************************)
(* C33 (SpecTagRace).  The claim: when two addTagToDepartment calls for    *)
(* two different tags and the same department have both completed, the     *)
(* document of the department holds both tags, however their reads and     *)
(* writes were interleaved.                                                *)
(***************************************************************************)
C33_NoLostTag ==
  \A p \in Callers, q \in Callers :
    (/\ admin.ops[p].pc = "done"
     /\ admin.ops[q].pc = "done"
     /\ admin.ops[p].department = admin.ops[q].department
     /\ Trim(admin.ops[p].tag) # Trim(admin.ops[q].tag)) =>
      {Trim(admin.ops[p].tag), Trim(admin.ops[q].tag)} \subseteq
        SeqToSet(registry[deptIdFor(admin.ops[p].department)].tags)

(***************************************************************************)
(* C32 (SpecForm).  The claim: at most one addLog call of the form is in   *)
(* flight at any time, and the events in the store are no more than the    *)
(* tag entries the operator has typed.                                     *)
(***************************************************************************)
C32_OneSubmissionInFlight ==
  /\ Cardinality(InFlight) <= 1
  /\ Cardinality(logs) <= form.entries

(***************************************************************************)
(* C37 (SpecFormFair): when isSubmitting is true it becomes false again,   *)
(* and it is false whenever no addLog call of the form is in flight.       *)
(***************************************************************************)
C37_SubmittingEnds ==
  /\ form.isSubmitting ~> ~form.isSubmitting
  /\ [](InFlight = {} => ~form.isSubmitting)

\* an addLog call of the form has thrown while the form is disabled
C37_Witness ==
  /\ form.isSubmitting
  /\ \E p \in Callers : Done(p) /\ calls[p].result.kind = "error"

(***************************************************************************)
(* C38 (SpecForm): every addLog call of the form and every stored event    *)
(* has an employee identifier and a tag that are not empty; a processTag   *)
(* that sets the fill-in-all-fields error starts no call, writes nothing   *)
(* and leaves isSubmitting as it was.                                      *)
(***************************************************************************)
C38_NoEmptySubmission ==
  [][/\ \A p \in Callers :
          calls'[p].pc # "idle" =>
            calls'[p].log.employeeId # "" /\ calls'[p].log.ipadTag # <<>>
     /\ \A e \in logs' : e.employeeId # "" /\ e.ipadTag # <<>>
     /\ (form'.error = MsgFillAll /\ form.error # MsgFillAll) =>
          /\ calls' = calls
          /\ logs' = logs
          /\ form'.isSubmitting = form.isSubmitting]_vars

\* Enter was pressed on a valid tag while the employee input was empty: the
\* form shows the error and no call is in flight
C38_Witness ==
  /\ form.error = MsgFillAll
  /\ form.employeeId = ""
  /\ checkTagValidity(form.tagsCache, Trim(form.ipadTag))
  /\ InFlight = {}
  /\ logs = {}

(***************************************************************************)
(* C39 (SpecAccess).  The claim: the middleware answers a request with     *)
(* NextResponse.next exactly when the request has an Authorization header  *)
(* of the form "Basic <credentials>" whose credentials decode to a string  *)
(* whose password, the text after its first colon or the whole string when *)
(* it has no colon, is the configured password; and it answers every other *)
(* request with status 401 and a WWW-Authenticate header.                  *)
(***************************************************************************)
PasswordOf(decoded) ==
  IF \E i \in 1..Len(decoded) : decoded[i] = 58
  THEN LET i == CHOOSE k \in 1..Len(decoded) :
                  decoded[k] = 58 /\ \A j \in 1..(k - 1) : decoded[j] # 58
       IN SubSeq(decoded, i + 1, Len(decoded))
  ELSE decoded

HasPassword(req) ==
  /\ req.hasAuth
  /\ Len(req.auth) > 6
  /\ SubSeq(req.auth, 1, 6) = <<"B", "a", "s", "i", "c", " ">>
  /\ LET a == atob(SubSeq(req.auth, 7, Len(req.auth)))
     IN ~a.threw /\ PasswordOf(a.decoded) = PASSWORD(req.env)

C39_OnlyPasswordPasses ==
  probe.response # NoResponse =>
    /\ probe.response.kind = "next" <=> HasPassword(probe.request)
    /\ probe.response.kind # "next" =>
         /\ probe.response.kind = "response"
         /\ probe.response.status = 401
         /\ probe.response.wwwAuthenticate

====
